---- MODULE Spec2Model ----
(***************************************************************************)
(* Fraud-scoring engine of Adv-Fraud-Detection-System.                     *)
(*                                                                         *)
(*   - server/api.js: the Express API (train / analyze routes, isolation   *)
(*     forest, evaluator) with its three module-level variables;           *)
(*   - src/FraudDetectionSystem.jsx: the production React component        *)
(*     (decision forest, isolation forest, evaluator, training run);       *)
(*   - src/utils/modelStorage.js: ModelStorage (IndexedDB and              *)
(*     localStorage), the IsolationForest, LocalOutlierFactor and          *)
(*     MLFraudDetector classes, and the advanced dashboard;                *)
(*   - unnamed/part_000: the rule-based variant with its user profiles.    *)
(*                                                                         *)
(* JavaScript values are tagged records: [num |-> n], [str |-> s],         *)
(* Undefined, NaN.  Numbers in data are integers.  c(n) and the anomaly    *)
(* score are fixed-point, in units of 1/10000.  Math.random() ranges over  *)
(* the grid {0/RandDen, .., (RandDen-1)/RandDen}.                          *)
(***************************************************************************)
EXTENDS Integers, Sequences, FiniteSets, TLC

(* ------------------------------- bounds -------------------------------- *)
MaxData == 2
MaxTrees == 2
MaxHistory == 2
MaxSample == 3
MaxTasks == 1
MaxTest == 3
MaxSide == 3
MaxArrivals == 11
RandDen == 2

(* --------------------------- JavaScript values -------------------------- *)
Undefined == [undef |-> TRUE]
NaN == [nan |-> TRUE]
Null == [null |-> TRUE]
Num(n) == [num |-> n]
Str(s) == [str |-> s]

IsNum(v) == DOMAIN v = {"num"}
IsNaN(v) == DOMAIN v = {"nan"}

\* obj[key]: undefined when the key is absent
Get(obj, key) == IF key \in DOMAIN obj THEN obj[key] ELSE Undefined

\* ToNumber: the coercion applied by <, >=, Math.min, isNaN
ToNumber(v) ==
  IF IsNum(v) THEN v
  ELSE IF v = Null THEN Num(0)
  ELSE IF DOMAIN v = {"str"}
       THEN (IF v.str = "0" THEN Num(0) ELSE IF v.str = "1" THEN Num(1) ELSE NaN)
       ELSE NaN

\* a < b and a >= b on coerced operands; any comparison with NaN is false
JsLt(a, b) ==
  LET x == ToNumber(a) y == ToNumber(b)
  IN IsNum(x) /\ IsNum(y) /\ x.num < y.num

JsGe(a, b) ==
  LET x == ToNumber(a) y == ToNumber(b)
  IN IsNum(x) /\ IsNum(y) /\ x.num >= y.num

\* a === b on numbers (NaN === NaN is false)
JsStrictEqNum(a, b) == IsNum(a) /\ IsNum(b) /\ a.num = b.num

SeqToSet(s) == {s[i] : i \in 1..Len(s)}

SetMin(S) == CHOOSE x \in S : \A y \in S : x <= y
SetMax(S) == CHOOSE x \in S : \A y \in S : x >= y

\* Math.min(...values) / Math.max(...values): NaN as soon as one operand is
MathMin(values) ==
  LET nums == {ToNumber(values[i]) : i \in 1..Len(values)}
  IN IF \E v \in nums : IsNaN(v) THEN NaN ELSE Num(SetMin({v.num : v \in nums}))

MathMax(values) ==
  LET nums == {ToNumber(values[i]) : i \in 1..Len(values)}
  IN IF \E v \in nums : IsNaN(v) THEN NaN ELSE Num(SetMax({v.num : v \in nums}))

\* all orderings of a sequence: what a random shuffle can return
Shuffles(s) ==
  {[i \in 1..Len(s) |-> s[p[i]]] :
     p \in {q \in [1..Len(s) -> 1..Len(s)] : \A i, j \in 1..Len(s) : q[i] = q[j] => i = j}}

Prefix(s, n) == SubSeq(s, 1, n)

\* d.Class === 1 || d.Class === '1'
IsFraudLabel(d) ==
  LET cl == Get(d, "Class")
  IN cl = Num(1) \/ cl = Str("1")

\* a legitimate filter that misses the string label: d.Class === 0
IsLegitLabel_numberOnly(d) == Get(d, "Class") = Num(0)

\* d.Class === 0 || d.Class === '0'
IsLegitLabel(d) ==
  LET cl == Get(d, "Class")
  IN cl = Num(0) \/ cl = Str("0")

\* Object.keys(d).filter(k => typeof d[k] === 'number' && k !== 'Class')
NumericFeatures(d) == {k \in DOMAIN d : IsNum(d[k]) /\ k # "Class"}

(* ------------------------------ input pools ----------------------------- *)
RecordPool ==
  { [Amount |-> Num(10), Time |-> Num(5), Class |-> Num(0)],
    [Amount |-> Num(30), Time |-> Num(10), Class |-> Num(1)],
    [Amount |-> Num(20), Class |-> Str("0")],
    [Amount |-> Str("N/A"), Time |-> Num(10), Class |-> Str("1")] }

\* a set as a sequence, in some fixed order
RECURSIVE SetToSeq(_)
SetToSeq(S) ==
  IF S = {} THEN <<>>
  ELSE LET x == CHOOSE y \in S : TRUE IN <<x>> \o SetToSeq(S \ {x})

\* the datasets a request or an upload carries: up to MaxData pool records.
\* Every consumer shuffles the dataset first, so one order each is enough.
Datasets == {SetToSeq(S) : S \in {T \in SUBSET RecordPool : Cardinality(T) <= MaxData}}

(* ------------------------- fixed-point arithmetic ----------------------- *)
\* c(n) = 2 (ln(n-1) + 0.5772156649) - 2 (n-1)/n, in 1/10000, tabulated for
\* the leaf and sample sizes the bounds reach
c(n) ==
  IF n <= 1 THEN 0
  ELSE CASE n = 2 -> 1544 [] n = 3 -> 12074 [] n = 4 -> 18517 [] n = 5 -> 23270
         [] n = 6 -> 27066 [] n = 7 -> 30237 [] n = 8 -> 32963 [] n = 9 -> 35355
         [] n = 128 -> 88584 [] n = 256 -> 102448

\* 2^(-k/16) in 1/10000
Pow2NegSixteenth(k) ==
  CASE k = 0 -> 10000 [] k = 1 -> 9576 [] k = 2 -> 9170 [] k = 3 -> 8781
    [] k = 4 -> 8409 [] k = 5 -> 8052 [] k = 6 -> 7711 [] k = 7 -> 7384
    [] k = 8 -> 7071 [] k = 9 -> 6771 [] k = 10 -> 6484 [] k = 11 -> 6209
    [] k = 12 -> 5946 [] k = 13 -> 5694 [] k = 14 -> 5453 [] k = 15 -> 5221

RECURSIVE TwoTo(_)
TwoTo(n) == IF n = 0 THEN 1 ELSE 2 * TwoTo(n - 1)

\* Math.pow(2, -num/den) for num >= 0: Num in 1/10000, or NaN for 0/0,
\* 0 for x/0 (2^-Infinity)
Pow2Neg(num, den) ==
  IF den = 0 THEN (IF num = 0 THEN NaN ELSE Num(0))
  ELSE LET q == (num * 16) \div den
       IN Num(Pow2NegSixteenth(q % 16) \div TwoTo(q \div 16))

(* ============================ server/api.js ============================= *)
\* Math.ceil(Math.log2(256))
ApiMaxDepth == 8

\* tree nodes; `reached` is a history field (the records the node was built
\* from), not part of the JavaScript object
LeafNode(data) == [type |-> "leaf", size |-> Len(data), reached |-> data]
InternalNode(feature, splitValue, left, right, data) ==
  [type |-> "internal", feature |-> feature, splitValue |-> splitValue,
   left |-> left, right |-> right, reached |-> data]

\* features[Math.floor(Math.random() * features.length)]: any feature, and
\* features[0] of an empty list is undefined (a key no record has)
RandomFeature(features) == IF features = {} THEN {"undefined"} ELSE features

CeilDiv(a, b) == (a + b - 1) \div b

\* minVal + Math.random() * (maxVal - minVal), with Math.random() = r/RandDen
\* for r in 1..RandDen-1 (the grid leaves out the single value 0).  Records
\* and points hold integers, so the real split value s compares with them as
\* its ceiling does: v < s  <=>  v < ceil(s).
RandomSplits(minVal, maxVal) ==
  IF IsNaN(minVal) \/ IsNaN(maxVal) THEN {NaN}
  ELSE {Num(minVal.num + CeilDiv(r * (maxVal.num - minVal.num), RandDen)) : r \in 1..(RandDen - 1)}

\* data.filter(d => d[feature] < splitValue)
FilterLt(data, feature, splitValue) ==
  SelectSeq(data, LAMBDA d : JsLt(Get(d, feature), splitValue))

\* data.filter(d => d[feature] >= splitValue)
FilterGe(data, feature, splitValue) ==
  SelectSeq(data, LAMBDA d : JsGe(Get(d, feature), splitValue))

RECURSIVE buildTree(_, _)
buildTree(data, depth) ==
  IF Len(data) <= 1 \/ depth >= ApiMaxDepth THEN {LeafNode(data)}
  ELSE UNION {
    LET values == [i \in 1..Len(data) |-> Get(data[i], feature)]
        minVal == MathMin(values)
        maxVal == MathMax(values)
    IN IF JsStrictEqNum(minVal, maxVal) THEN {LeafNode(data)}
       ELSE UNION {
         {InternalNode(feature, splitValue, l, r, data) :
            l \in buildTree(FilterLt(data, feature, splitValue), depth + 1),
            r \in buildTree(FilterGe(data, feature, splitValue), depth + 1)}
         : splitValue \in RandomSplits(minVal, maxVal)}
    : feature \in RandomFeature(NumericFeatures(data[1]))}

\* the JavaScript object of a built tree: the node without its history field
RECURSIVE TreeObject(_)
TreeObject(t) ==
  IF t.type = "leaf" THEN [type |-> "leaf", size |-> t.size]
  ELSE [type |-> "internal", feature |-> t.feature, splitValue |-> t.splitValue,
        left |-> TreeObject(t.left), right |-> TreeObject(t.right)]

RECURSIVE TreeObjectRF(_)
TreeObjectRF(t) ==
  IF t.type = "leaf"
  THEN [type |-> "leaf", probability |-> t.probability, samples |-> t.samples, frauds |-> t.frauds]
  ELSE [type |-> "internal", feature |-> t.feature, splitValue |-> t.splitValue,
        left |-> TreeObjectRF(t.left), right |-> TreeObjectRF(t.right)]

\* [...data].sort(() => Math.random() - 0.5).slice(0, size)
subsample(data, size) == {Prefix(p, size) : p \in Shuffles(data)}

Min(a, b) == IF a < b THEN a ELSE b

\* x || dflt for a numeric option: undefined and 0 are falsy
OrDefault(x, dflt) == IF IsNum(x) /\ x.num # 0 THEN x.num ELSE dflt

ApiDefaultNumTrees == 100
ApiDefaultSubSampleSize == 256
\* config?.testSplit || 0.2, in percent
ApiDefaultTestSplit == 20

\* the outcomes of trainIsolationForest(data, config): a model, or the
\* TypeError of Object.keys(data[0]) when data is empty
trainIsolationForest(data, config) ==
  LET numTrees == OrDefault(config.numTrees, ApiDefaultNumTrees)
      subSampleSize == Min(OrDefault(config.subSampleSize, ApiDefaultSubSampleSize), Len(data))
      treeSet == {TreeObject(t) :
                    t \in UNION {buildTree(sample, 0) : sample \in subsample(data, subSampleSize)}}
  IN IF Len(data) = 0 THEN {[error |-> "TypeError"]}
     ELSE {[trees |-> trees, numTrees |-> numTrees, subSampleSize |-> subSampleSize,
            features |-> NumericFeatures(data[1])] : trees \in [1..numTrees -> treeSet]}

RECURSIVE pathLength(_, _, _)
pathLength(point, tree, depth) ==
  IF tree.type = "leaf" THEN depth * 10000 + c(tree.size)
  ELSE IF JsLt(Get(point, tree.feature), tree.splitValue)
       THEN pathLength(point, tree.left, depth + 1)
       ELSE pathLength(point, tree.right, depth + 1)

RECURSIVE SumSeq(_)
SumSeq(s) == IF Len(s) = 0 THEN 0 ELSE s[1] + SumSeq(Tail(s))

\* Math.round(x * 100) of a score in 1/10000
RoundPercent(score) == IF IsNaN(score) THEN NaN ELSE Num((score.num + 50) \div 100)

\* score > threshold, both in 1/10000; false for NaN
ScoreAbove(score, threshold) == IsNum(score) /\ score.num > threshold

predictTransaction(transaction, model) ==
  LET total == SumSeq([i \in 1..Len(model.trees) |-> pathLength(transaction, model.trees[i], 0)])
      cN == c(model.subSampleSize)
      \* (total / trees.length) / cN
      anomalyScore == Pow2Neg(total, Len(model.trees) * cN)
  IN [isFraud |-> ScoreAbove(anomalyScore, 6000),
      confidence |-> anomalyScore,
      riskScore |-> RoundPercent(anomalyScore),
      anomalyScore |-> anomalyScore]

(* ------------------------------ evaluator ------------------------------- *)
\* the chain without its last branch: a missed fraud is counted nowhere
Bucket_noFalseNegatives(isFraud, actualFraud) ==
  IF isFraud /\ actualFraud THEN "truePositives"
  ELSE IF isFraud /\ ~actualFraud THEN "falsePositives"
  ELSE IF ~isFraud /\ ~actualFraud THEN "trueNegatives"
  ELSE "none"

\* the if / else-if chain of evaluateModel: the bucket one record is counted in
Bucket(isFraud, actualFraud) ==
  IF isFraud /\ actualFraud THEN "truePositives"
  ELSE IF isFraud /\ ~actualFraud THEN "falsePositives"
  ELSE IF ~isFraud /\ ~actualFraud THEN "trueNegatives"
  ELSE IF ~isFraud /\ actualFraud THEN "falseNegatives"
  ELSE "none"

\* a / b on non-negative integers: a rational, NaN for 0/0, Infinity for x/0
Infinity == [inf |-> TRUE]
IsRat(x) == DOMAIN x = {"rn", "rd"}
JsDiv(a, b) ==
  IF b = 0 THEN (IF a = 0 THEN NaN ELSE Infinity) ELSE [rn |-> a, rd |-> b]

\* a metric without its || 0
OrZero_absent(x) == x

\* x || 0: NaN and 0 are falsy
OrZero(x) == IF IsRat(x) /\ x.rn # 0 THEN x ELSE IF IsRat(x) \/ IsNaN(x) THEN [rn |-> 0, rd |-> 1] ELSE x

\* 2 * (p * r) / (p + r) on rationals
F1Of(p, r) ==
  IF IsRat(p) /\ IsRat(r) THEN JsDiv(2 * p.rn * r.rn, p.rn * r.rd + r.rn * p.rd) ELSE NaN

\* x.toFixed(4): the decimal string, as its count of 1/10000 (round half
\* up); "NaN" for NaN and "Infinity" for Infinity
ToFixed4(x) == IF IsRat(x) THEN Num((2 * 10000 * x.rn + x.rd) \div (2 * x.rd)) ELSE x

\* the metrics computed from the four counters and the test-set size
Metrics(tp, fp, tn, fn, n) ==
  LET precision == OrZero(JsDiv(tp, tp + fp))
      recall == OrZero(JsDiv(tp, tp + fn))
      f1Score == OrZero(F1Of(precision, recall))
      accuracy == OrZero(JsDiv(tp + tn, n))
  IN [accuracy |-> ToFixed4(accuracy), precision |-> ToFixed4(precision),
      recall |-> ToFixed4(recall), f1Score |-> ToFixed4(f1Score),
      confusionMatrix |-> [truePositives |-> tp, falsePositives |-> fp,
                           trueNegatives |-> tn, falseNegatives |-> fn]]

\* evaluation of a sequence of (isFraud, actualFraud) outcomes, one per record
\* in test-set order
Evaluate(outcomes) ==
  LET count(b) == Cardinality({i \in 1..Len(outcomes) : Bucket(outcomes[i].isFraud, outcomes[i].actualFraud) = b})
  IN Metrics(count("truePositives"), count("falsePositives"),
             count("trueNegatives"), count("falseNegatives"), Len(outcomes))

evaluateModel(model, testData) ==
  Evaluate([i \in 1..Len(testData) |->
              [isFraud |-> predictTransaction(testData[i], model).isFraud,
               actualFraud |-> IsFraudLabel(testData[i])]])


(* ===================== src/FraudDetectionSystem.jsx ===================== *)
\* useState(5): minSamplesLeaf
minSamplesLeaf == 5
\* useState(15): maxDepth
DefaultMaxDepth == 15
\* useState(100): classWeight
DefaultClassWeight == 100
\* buildIsolationTree(data, depth = 0, maxDepth = 8)
IsoMaxDepth == 8
\* Math.min(5000, data.length)
MaxBootstrap == 5000
\* Math.min(256, data.length)
IsoSubSampleSize == 256

\* shuffleArray: Fisher-Yates, any ordering
shuffleArray(array) == Shuffles(array)

\* subsample(data, size): shuffled.slice(0, Math.min(size, data.length))
fdsSubsample(data, size) == {Prefix(p, Min(size, Len(data))) : p \in shuffleArray(data)}

getFeatureNames(data) == IF Len(data) = 0 THEN {} ELSE NumericFeatures(data[1])

\* isNaN(v): true for undefined and for strings that are no numbers
JsIsNaN(v) == IsNaN(ToNumber(v))

(* -------- decision forest -------- *)
\* a calcGini that weights fraud by the default class weight whatever the
\* classWeight in use
calcGini_defaultWeight(data, classWeight) ==
  LET total == Len(data)
      frauds == Len(SelectSeq(data, IsFraudLabel))
      legits == total - frauds
      weightedFrauds == frauds * DefaultClassWeight
      weightedLegits == legits * 1
      weightedTotal == weightedFrauds + weightedLegits
  IN IF total = 0 \/ weightedTotal = 0 THEN 0
     ELSE (2 * weightedFrauds * weightedLegits * 10000) \div (weightedTotal * weightedTotal)

\* calcGini(data) of calculateWeightedGini, in 1/10000:
\* 1 - pFraud^2 - pLegit^2 = 2 wF wL / (wF + wL)^2
calcGini(data, classWeight) ==
  LET total == Len(data)
      frauds == Len(SelectSeq(data, IsFraudLabel))
      legits == total - frauds
      weightedFrauds == frauds * classWeight
      weightedLegits == legits * 1
      weightedTotal == weightedFrauds + weightedLegits
  IN IF total = 0 \/ weightedTotal = 0 THEN 0
     ELSE (2 * weightedFrauds * weightedLegits * 10000) \div (weightedTotal * weightedTotal)

\* leftGini + rightGini, each side weighted by its share of the samples
calculateWeightedGini(leftData, rightData, classWeight) ==
  LET totalSamples == Len(leftData) + Len(rightData)
  IN (calcGini(leftData, classWeight) * Len(leftData)) \div totalSamples
     + (calcGini(rightData, classWeight) * Len(rightData)) \div totalSamples

\* [...new Set(values)].sort((a, b) => a - b) of the values that are numbers
SortedValues(data, feature) ==
  LET nums == {ToNumber(Get(data[i], feature)).num :
                 i \in {j \in 1..Len(data) : ~JsIsNaN(Get(data[j], feature))}}
      RECURSIVE Sorted(_)
      Sorted(S) == IF S = {} THEN <<>> ELSE <<SetMin(S)>> \o Sorted(S \ {SetMin(S)})
  IN Sorted(nums)

\* a split search that keeps the candidates whatever the size of their sides
CandidateSplits_anySize(data, feature, classWeight) ==
  LET sortedValues == SortedValues(data, feature)
      numSplits == Min(10, Len(sortedValues) - 1)
      cand(i) ==
        LET idx == ((i + 1) * Len(sortedValues)) \div (numSplits + 1)
            splitValue == Num(sortedValues[idx + 1])
            leftData == FilterLt(data, feature, splitValue)
            rightData == FilterGe(data, feature, splitValue)
        IN [feature |-> feature, splitValue |-> splitValue,
            left |-> leftData, right |-> rightData,
            gini |-> calculateWeightedGini(leftData, rightData, classWeight)]
  IN IF Len(sortedValues) = 0 THEN <<>> ELSE [i \in 1..numSplits |-> cand(i - 1)]

\* the candidate splits of one feature, in loop order: those whose two sides
\* both hold minSamplesLeaf records
CandidateSplits(data, feature, classWeight) ==
  LET sortedValues == SortedValues(data, feature)
      numSplits == Min(10, Len(sortedValues) - 1)
      cand(i) ==
        LET idx == ((i + 1) * Len(sortedValues)) \div (numSplits + 1)
            splitValue == Num(sortedValues[idx + 1])
            leftData == FilterLt(data, feature, splitValue)
            rightData == FilterGe(data, feature, splitValue)
        IN [feature |-> feature, splitValue |-> splitValue,
            left |-> leftData, right |-> rightData,
            gini |-> calculateWeightedGini(leftData, rightData, classWeight)]
      all == IF Len(sortedValues) = 0 THEN <<>> ELSE [i \in 1..numSplits |-> cand(i - 1)]
  IN SelectSeq(all, LAMBDA s : Len(s.left) >= minSamplesLeaf /\ Len(s.right) >= minSamplesLeaf)

\* the first candidate of strictly lowest gini (gini < bestGini), or Null
BestSplit(cands) ==
  IF Len(cands) = 0 THEN Null
  ELSE LET best == CHOOSE i \in 1..Len(cands) :
                     /\ \A j \in 1..Len(cands) : cands[i].gini <= cands[j].gini
                     /\ \A j \in 1..(i - 1) : cands[j].gini > cands[i].gini
       IN cands[best]

RECURSIVE ConcatAll(_)
ConcatAll(ss) == IF Len(ss) = 0 THEN <<>> ELSE ss[1] \o ConcatAll(Tail(ss))

\* Math.ceil(Math.sqrt(n)) for the feature counts in use
CeilSqrt(n) == CHOOSE k \in 0..n : k * k >= n /\ (k = 0 \/ (k - 1) * (k - 1) < n)

\* shuffleArray(featureNames).slice(0, numFeaturesToTry): ordered selections
FeaturesToTry(featureNames) ==
  {Prefix(p, CeilSqrt(Cardinality(featureNames))) : p \in Shuffles(SetToSeq(featureNames))}

DecisionLeaf(data, fraudCount) ==
  [type |-> "leaf", probability |-> JsDiv(fraudCount, Len(data)),
   samples |-> Len(data), frauds |-> fraudCount, reached |-> data]

RECURSIVE buildDecisionTree(_, _, _, _)
buildDecisionTree(data, depth, featureNames, params) ==
  LET fraudCount == Len(SelectSeq(data, IsFraudLabel))
      legitCount == Len(data) - fraudCount
  IN IF \/ depth >= params.maxDepth
        \/ Len(data) < minSamplesLeaf * 2
        \/ fraudCount = 0
        \/ legitCount = 0
     THEN {DecisionLeaf(data, fraudCount)}
     ELSE UNION {
       LET best == BestSplit(ConcatAll([k \in 1..Len(featuresToTry) |->
                      CandidateSplits(data, featuresToTry[k], params.classWeight)]))
       IN IF best = Null THEN {DecisionLeaf(data, fraudCount)}
          ELSE {InternalNode(best.feature, best.splitValue, l, r, data) :
                  l \in buildDecisionTree(best.left, depth + 1, featureNames, params),
                  r \in buildDecisionTree(best.right, depth + 1, featureNames, params)}
       : featuresToTry \in FeaturesToTry(featureNames)}

\* the bootstrap samples of one round of trainRandomForest
BootstrapSamples(data) ==
  LET fraudCases == SelectSeq(data, IsFraudLabel)
      legitCases == SelectSeq(data, IsLegitLabel)
      sampleSize == Min(MaxBootstrap, Len(data))
      fraudSampleSize == Min(Len(fraudCases) * 3, (sampleSize * 3) \div 10)
      legitSampleSize == sampleSize - fraudSampleSize
  IN UNION {shuffleArray(f \o l) :
              f \in fdsSubsample(fraudCases, fraudSampleSize),
              l \in fdsSubsample(legitCases, legitSampleSize)}

\* the trees one round can build, with their history fields
ForestRoundTrees(data, params) ==
  UNION {buildDecisionTree(sample, 0, getFeatureNames(data), params) : sample \in BootstrapSamples(data)}

trainRandomForest(data, params) ==
  LET treeSet == {TreeObjectRF(t) : t \in ForestRoundTrees(data, params)}
  IN {[type |-> "randomForest", trees |-> trees, numTrees |-> params.numTrees,
       featureNames |-> getFeatureNames(data), maxDepth |-> params.maxDepth,
       classWeight |-> params.classWeight] : trees \in [1..params.numTrees -> treeSet]}


\* a + b on probabilities (rationals); NaN propagates, null counts as 0
RatAdd(a, b) ==
  IF IsNaN(a) \/ IsNaN(b) THEN NaN
  ELSE IF a = Null THEN (IF b = Null THEN [rn |-> 0, rd |-> 1] ELSE b)
  ELSE IF b = Null THEN a
  ELSE [rn |-> a.rn * b.rd + b.rn * a.rd, rd |-> a.rd * b.rd]

RECURSIVE RatSum(_)
RatSum(s) == IF Len(s) = 0 THEN [rn |-> 0, rd |-> 1] ELSE RatAdd(s[1], RatSum(Tail(s)))

\* a predictWithTreeInline without the neutral fallback: a missing value
\* fails the comparison and goes right
RECURSIVE predictWithTreeInline_noFallback(_, _)
predictWithTreeInline_noFallback(trans, tree) ==
  IF tree.type = "leaf" THEN tree.probability
  ELSE IF JsLt(Get(trans, tree.feature), tree.splitValue)
       THEN predictWithTreeInline_noFallback(trans, tree.left)
       ELSE predictWithTreeInline_noFallback(trans, tree.right)

RECURSIVE predictWithTreeInline(_, _)
predictWithTreeInline(trans, tree) ==
  IF tree.type = "leaf" THEN tree.probability
  ELSE LET value == Get(trans, tree.feature)
       IN IF value = Undefined \/ JsIsNaN(value) THEN [rn |-> 1, rd |-> 2]
          ELSE IF JsLt(value, tree.splitValue)
               THEN predictWithTreeInline(trans, tree.left)
               ELSE predictWithTreeInline(trans, tree.right)

\* threshold is in 1/10000
predictRandomForest(transaction, model, threshold) ==
  LET probabilities == [i \in 1..Len(model.trees) |-> predictWithTreeInline(transaction, model.trees[i])]
      total == RatSum(probabilities)
      avgProb == IF IsNaN(total) THEN NaN
                 ELSE JsDiv(total.rn, total.rd * Len(probabilities))
  IN [isFraud |-> IsRat(avgProb) /\ avgProb.rn * 10000 > threshold * avgProb.rd,
      confidence |-> avgProb,
      riskScore |-> IF IsRat(avgProb) THEN Num((200 * avgProb.rn + avgProb.rd) \div (2 * avgProb.rd))
                    ELSE NaN,
      anomalyScore |-> avgProb]

(* -------- isolation forest -------- *)
\* featureWeights of the features in use, in tenths (Amount: 1.2, Time: 0.8)
featureWeights == [Amount |-> 12, Time |-> 8]

\* the x1.5 of predictIsolationForest, in tenths
ImportantFeatureWeight == 15
importantFeatures == {"Amount"}

\* weights are applied to values that are multiples of 5, so products stay integers
applyFeatureWeighting(transaction, useFeatureWeighting) ==
  IF ~useFeatureWeighting THEN transaction
  ELSE [k \in DOMAIN transaction |->
          IF k \in DOMAIN featureWeights /\ IsNum(transaction[k])
          THEN Num((transaction[k].num * featureWeights[k]) \div 10)
          ELSE transaction[k]]

RECURSIVE buildIsolationTree(_, _)
buildIsolationTree(data, depth) ==
  IF Len(data) <= 1 \/ depth >= IsoMaxDepth THEN {LeafNode(data)}
  ELSE UNION {
    LET values == SelectSeq([i \in 1..Len(data) |-> Get(data[i], feature)],
                            LAMBDA v : ~JsIsNaN(v))
    IN IF Len(values) = 0 THEN {LeafNode(data)}
       ELSE LET minVal == MathMin(values)
                maxVal == MathMax(values)
            IN IF JsStrictEqNum(minVal, maxVal) THEN {LeafNode(data)}
               ELSE UNION {
                 LET leftData == FilterLt(data, feature, splitValue)
                     rightData == FilterGe(data, feature, splitValue)
                 IN IF Len(leftData) = 0 \/ Len(rightData) = 0 THEN {LeafNode(data)}
                    ELSE {InternalNode(feature, splitValue, l, r, data) :
                            l \in buildIsolationTree(leftData, depth + 1),
                            r \in buildIsolationTree(rightData, depth + 1)}
                 : splitValue \in RandomSplits(minVal, maxVal)}
    : feature \in RandomFeature(NumericFeatures(data[1]))}

\* the trees one round of the component's trainIsolationForest can build,
\* with their history fields
IsoRoundTrees(data, useFeatureWeighting) ==
  UNION {buildIsolationTree([i \in 1..Len(sample) |->
                               applyFeatureWeighting(sample[i], useFeatureWeighting)], 0)
         : sample \in fdsSubsample(data, Min(IsoSubSampleSize, Len(data)))}

\* the outcomes of the component's trainIsolationForest: a model, or the
\* TypeError of Object.keys(data[0]) when data is empty
fdsTrainIsolationForest(data, params) ==
  LET subSampleSize == Min(IsoSubSampleSize, Len(data))
      treeSet == {TreeObject(t) : t \in IsoRoundTrees(data, params.useFeatureWeighting)}
  IN IF Len(data) = 0 THEN {[error |-> "TypeError"]}
     ELSE {[type |-> "isolationForest", trees |-> trees, numTrees |-> params.numTrees,
            subSampleSize |-> subSampleSize, features |-> NumericFeatures(data[1])]
             : trees \in [1..params.numTrees -> treeSet]}

RECURSIVE getNodeSize(_)
getNodeSize(node) ==
  IF node.type = "leaf" THEN node.size ELSE getNodeSize(node.left) + getNodeSize(node.right)

RECURSIVE fdsPathLength(_, _, _)
fdsPathLength(point, tree, depth) ==
  IF tree.type = "leaf" THEN depth * 10000 + c(tree.size)
  ELSE LET value == Get(point, tree.feature)
       IN IF value = Undefined \/ JsIsNaN(value) THEN depth * 10000 + c(getNodeSize(tree))
          ELSE IF JsLt(value, tree.splitValue)
               THEN fdsPathLength(point, tree.left, depth + 1)
               ELSE fdsPathLength(point, tree.right, depth + 1)

\* weightedTransaction[feature] *= 1.5 for the important features present
WeightedTransaction(transaction, useFeatureWeighting) ==
  IF ~useFeatureWeighting THEN transaction
  ELSE [k \in DOMAIN transaction |->
          IF k \in importantFeatures
          THEN (LET v == ToNumber(transaction[k])
                IN IF IsNum(v) THEN Num((v.num * ImportantFeatureWeight) \div 10) ELSE NaN)
          ELSE transaction[k]]

predictIsolationForest(transaction, model, threshold, useFeatureWeighting) ==
  LET weightedTransaction == WeightedTransaction(transaction, useFeatureWeighting)
      total == SumSeq([i \in 1..Len(model.trees) |->
                         fdsPathLength(weightedTransaction, model.trees[i], 0)])
      cN == c(model.subSampleSize)
      anomalyScore == Pow2Neg(total, Len(model.trees) * cN)
  IN [isFraud |-> ScoreAbove(anomalyScore, threshold),
      confidence |-> anomalyScore,
      riskScore |-> RoundPercent(anomalyScore),
      anomalyScore |-> anomalyScore]

\* predictFn of evaluateModel and handleReEvaluate; ui holds the threshold and
\* useFeatureWeighting the prediction callbacks closed over
predictFn(transaction, model, ui) ==
  IF model.type = "randomForest" THEN predictRandomForest(transaction, model, ui.threshold)
  ELSE predictIsolationForest(transaction, model, ui.threshold, ui.useFeatureWeighting)

\* evaluateModel of the component, and the same computation inlined in
\* handleReEvaluate
fdsEvaluateModel(model, testDataSet, ui) ==
  Evaluate([i \in 1..Len(testDataSet) |->
              [isFraud |-> predictFn(testDataSet[i], model, ui).isFraud,
               actualFraud |-> IsFraudLabel(testDataSet[i])]])

(* ============================ the state ================================= *)
\* The repository holds three programs that share no state: the API server,
\* the production component and the dashboard's detector classes.  A
\* behaviour follows one of them (sys), or applies one of the pure functions
\* to an input drawn at the start.
VARIABLES
  sys,                 \* which program this behaviour follows
  trainedModel,        \* api.js:14
  modelMetadata,       \* api.js:15
  transactionHistory,  \* api.js:16
  apiResponse,         \* the response the last request was answered with
  fds,                 \* the useState hooks of FraudDetectionSystem
  tasks,               \* its pending timers and awaited promises
  uiAlert,             \* the alert() its last step raised, if any
  storedModel,         \* the type of the model ModelStorage holds as active
  reports,             \* history: the percents reported since the last training run began
  isolationForest,     \* an IsolationForest object of modelStorage.js
  lof,                 \* a LocalOutlierFactor object
  detector,            \* the rest of an MLFraudDetector: trainingData and its OneClassSVM
  lastCall,            \* the last call on them and what it returned
  fnInput,             \* the input drawn for the pure functions
  fnResult,            \* the function last applied to it and its result
  completed,           \* history: a training run has run to its successful end
  mlModel,             \* part_000:25, the profiles of the rule-based variant
  isMonitoring,        \* part_000:18
  stats,               \* part_000:19
  arrivals,            \* history: per user, the transactions processed, in arrival order
  modelStore,          \* ModelStorage: the 'models' object store and localStorage's activeModelId
  now,                 \* Date.now()
  storeCall,           \* the last ModelStorage call that completed and what it resolved to
  saved,               \* history: per id, the model saveModel was called with
  db,                  \* modelStorage.js:7, whether this.db is set
  download,            \* the file the last exportModel handed to the browser
  clearing,            \* the clearAll calls that await their Promise.all
  adv,                 \* the useState hooks of AdvancedFraudDetectionSystem
  advDetector,         \* its mlDetector
  advTimers,           \* its two intervals: what their callbacks closed over, and their phase
  advDraws,            \* the scores its detector returns, in the order of the calls
  advLast              \* history: the last step of the dashboard

apiVars == <<trainedModel, modelMetadata, transactionHistory, apiResponse>>
fdsVars == <<fds, tasks, uiAlert, storedModel, reports>>
clsVars == <<isolationForest, lof, detector, lastCall>>
fnVars == <<fnInput, fnResult>>
ruleVars == <<mlModel, isMonitoring, stats, arrivals>>
storeVars == <<modelStore, now, storeCall, saved, db, download, clearing>>
advVars == <<adv, advDetector, advTimers, advDraws, advLast>>
vars == <<sys, apiVars, fdsVars, clsVars, fnVars, ruleVars, storeVars, advVars, completed>>

(* ------------------------------ API server ------------------------------ *)
\* the config objects a train request carries (numTrees always given, so
\* that forests stay small)
ApiConfigs ==
  [numTrees : {Num(k) : k \in 1..MaxTrees},
   subSampleSize : {Undefined},
   testSplit : {Undefined, Num(50), Num(100)}]

\* the transactions an analyze request carries
ApiTransactions ==
  { [Amount |-> Num(30), Time |-> Num(10)],
    [Amount |-> Str("N/A"), Time |-> Num(5)],
    [Amount |-> Num(20)] }

\* splitDataset(data, testRatio), testRatio in percent
splitDataset(data, testRatio) ==
  LET testSize == (Len(data) * testRatio) \div 100
      cut == Min(testSize, Len(data))    \* slice stops at the end of the array
  IN {[trainData |-> SubSeq(shuffled, cut + 1, Len(shuffled)),
       testData |-> SubSeq(shuffled, 1, cut)] : shuffled \in Shuffles(data)}

\* the body of the train route after its dataset check: every outcome of one
\* request, either the values to store and answer with, or the error caught
TrainRequestOutcomes(dataset, config) ==
  LET splitRatio == OrDefault(config.testSplit, ApiDefaultTestSplit)
  IN UNION {
       {IF "error" \in DOMAIN model
        THEN [status |-> 500, error |-> model.error]
        ELSE [status |-> 200, model |-> model,
              metadata |-> [datasetSize |-> Len(dataset),
                            trainSize |-> Len(split.trainData),
                            testSize |-> Len(split.testData),
                            evaluation |-> evaluateModel(model, split.testData),
                            config |-> config]]
        : model \in trainIsolationForest(split.trainData, config)}
       : split \in splitDataset(dataset, splitRatio)}

\* the non-empty datasets, and the bodies the dataset check turns down:
\* no dataset, a dataset that is no array, an empty array
NonEmptyDatasets == {d \in Datasets : Len(d) > 0}
BadDatasets == {"missing", "notArray", "empty"}

\* the outcomes of every (dataset, config) request
ApiTrainRuns ==
  UNION {{[dataset |-> d, config |-> cfg, out |-> out] : out \in TrainRequestOutcomes(d, cfg)}
         : d \in NonEmptyDatasets, cfg \in ApiConfigs}

ApiInit ==
  /\ trainedModel = Null
  /\ modelMetadata = Null
  /\ transactionHistory = <<>>
  /\ apiResponse = [route |-> "none", status |-> 0]

\* a train route that stores the model and leaves the metadata for later
PostModelTrain_modelOnly ==
  /\ sys = "api"
  /\ \E run \in ApiTrainRuns :
       /\ run.out.status = 200
       /\ trainedModel' = run.out.model
       /\ apiResponse' = [route |-> "train", status |-> 200, metadata |-> run.out.metadata]
       /\ completed' = TRUE
  /\ UNCHANGED <<modelMetadata, transactionHistory, ruleVars, storeVars, advVars, sys, fdsVars, clsVars, fnVars>>

\* POST /api/model/train
PostModelTrain ==
  /\ sys = "api"
  /\ \/ \E bad \in BadDatasets :
          \* !dataset || !Array.isArray(dataset) || dataset.length === 0
          /\ apiResponse' = [route |-> "train", status |-> 400, error |-> "Invalid or empty dataset"]
          /\ UNCHANGED <<trainedModel, modelMetadata, transactionHistory, completed>>
     \/ \E run \in ApiTrainRuns :
          LET out == run.out
          IN
            IF out.status = 200
            THEN /\ trainedModel' = out.model
                 /\ modelMetadata' = out.metadata
                 /\ apiResponse' = [route |-> "train", status |-> 200, metadata |-> out.metadata]
                 /\ completed' = TRUE
                 /\ UNCHANGED transactionHistory
            ELSE /\ apiResponse' = [route |-> "train", status |-> 500, error |-> out.error]
                 /\ UNCHANGED <<trainedModel, modelMetadata, transactionHistory, completed>>
  /\ UNCHANGED <<ruleVars, storeVars, advVars, sys, fdsVars, clsVars, fnVars>>

\* requiredFields.filter(field => !(field in transaction))
MissingFields(transaction) == {"Amount", "Time"} \ DOMAIN transaction

\* an analyze route without the check of the required fields
PostTransactionAnalyze_unvalidated ==
  /\ sys = "api"
  /\ \E transaction \in ApiTransactions :
       /\ Len(transactionHistory) < MaxHistory
       /\ IF trainedModel = Null
          THEN /\ apiResponse' = [route |-> "analyze", status |-> 400, error |-> "Model not trained yet"]
               /\ UNCHANGED <<trainedModel, modelMetadata, transactionHistory>>
          ELSE LET prediction == predictTransaction(transaction, trainedModel)
               IN /\ transactionHistory' = Append(transactionHistory,
                                                  [transaction |-> transaction, prediction |-> prediction])
                  /\ apiResponse' = [route |-> "analyze", status |-> 200,
                                     transaction |-> transaction, prediction |-> prediction]
                  /\ UNCHANGED <<trainedModel, modelMetadata>>
  /\ UNCHANGED <<ruleVars, storeVars, advVars, sys, fdsVars, clsVars, fnVars, completed>>

\* POST /api/transaction/analyze
PostTransactionAnalyze ==
  /\ sys = "api"
  /\ \E transaction \in ApiTransactions :
       /\ Len(transactionHistory) < MaxHistory
       /\ IF trainedModel = Null
          THEN /\ apiResponse' = [route |-> "analyze", status |-> 400, error |-> "Model not trained yet"]
               /\ UNCHANGED <<trainedModel, modelMetadata, transactionHistory>>
          ELSE IF MissingFields(transaction) # {}
          THEN /\ apiResponse' = [route |-> "analyze", status |-> 400, error |-> "Missing required fields"]
               /\ UNCHANGED <<trainedModel, modelMetadata, transactionHistory>>
          ELSE LET prediction == predictTransaction(transaction, trainedModel)
               IN /\ transactionHistory' = Append(transactionHistory,
                                                  [transaction |-> transaction, prediction |-> prediction])
                  /\ apiResponse' = [route |-> "analyze", status |-> 200,
                                     transaction |-> transaction, prediction |-> prediction]
                  /\ UNCHANGED <<trainedModel, modelMetadata>>
  /\ UNCHANGED <<ruleVars, storeVars, advVars, sys, fdsVars, clsVars, fnVars, completed>>

\* GET /api/model/info
GetModelInfo ==
  /\ sys = "api"
  /\ apiResponse' = IF trainedModel = Null \/ modelMetadata = Null
                    THEN [route |-> "info", status |-> 404, error |-> "No model trained yet"]
                    ELSE [route |-> "info", status |-> 200, metadata |-> modelMetadata]
  /\ UNCHANGED <<trainedModel, modelMetadata, transactionHistory>>
  /\ UNCHANGED <<ruleVars, storeVars, advVars, sys, fdsVars, clsVars, fnVars, completed>>

ApiNext == PostModelTrain \/ PostTransactionAnalyze \/ GetModelInfo

(* ------------------------ production component ------------------------- *)
\* the threshold settings in use, in 1/10000: the slider's minimum and the
\* two defaults the model-type buttons set
Thresholds == {1000, 5000, 6000}

UiSettings == [threshold : Thresholds, useFeatureWeighting : BOOLEAN]

\* the parameters a training run of the component reads from its state
FdsParams ==
  [numTrees : 1..MaxTrees, maxDepth : {DefaultMaxDepth}, classWeight : {DefaultClassWeight},
   useFeatureWeighting : BOOLEAN]

OneTree(params) == params.numTrees = 1

\* what the callback of one training run closed over
\* the datasets uploaded to the component
FdsDatasets ==
  { << [Amount |-> Num(10), Time |-> Num(5), Class |-> Num(0)],
       [Amount |-> Num(30), Time |-> Num(10), Class |-> Num(1)] >>,
    << [Amount |-> Num(20), Class |-> Str("0")] >> }

\* the positions the threshold slider is moved to: the two defaults
SliderThresholds == {5000, 6000}

TrainClosures ==
  [realDataset : FdsDatasets, modelType : {"randomForest", "isolationForest"},
   threshold : SliderThresholds, numTrees : {MaxTrees}, useFeatureWeighting : BOOLEAN]

\* the try block of the timer callback of handleModelTrained up to its first
\* await: split, train, evaluate; every outcome for one closure
TrainCallbackOutcomes(cl) ==
  LET testSize == (Len(cl.realDataset) * 2) \div 10
      params == [numTrees |-> cl.numTrees, maxDepth |-> DefaultMaxDepth,
                 classWeight |-> DefaultClassWeight, useFeatureWeighting |-> cl.useFeatureWeighting]
      ui == [threshold |-> cl.threshold, useFeatureWeighting |-> cl.useFeatureWeighting]
  IN UNION {
       LET trainData == SubSeq(shuffled, testSize + 1, Len(shuffled))
           currentTestData == SubSeq(shuffled, 1, testSize)
       IN {[closure |-> cl, testData |-> currentTestData, model |-> model,
            metrics |-> fdsEvaluateModel(model, currentTestData, ui)]
           : model \in IF cl.modelType = "randomForest"
                       THEN trainRandomForest(trainData, params)
                       ELSE fdsTrainIsolationForest(trainData, params)}
       : shuffled \in shuffleArray(cl.realDataset)}

FdsTrainRuns == UNION {TrainCallbackOutcomes(cl) : cl \in TrainClosures}

FdsInit ==
  /\ fds = [realDataset |-> Null, trainedModel |-> Null, modelMetrics |-> Null,
            confusionMatrix |-> Null, training |-> FALSE, testData |-> Null,
            trainingProgress |-> 0, modelType |-> "randomForest", threshold |-> 5000,
            numTrees |-> MaxTrees, useFeatureWeighting |-> TRUE,
            trainedOn |-> Null]   \* history: the dataset trainedModel was trained on
  /\ tasks = <<>>
  /\ uiAlert = "none"
  /\ storedModel = Null
  /\ reports = <<>>

\* an array held in a state hook that starts as null
Rows(array) == [rows |-> array]

RemoveAt(s, i) == SubSeq(s, 1, i - 1) \o SubSeq(s, i + 1, Len(s))

\* a training run is in flight: its timer is pending or its callback awaits
TrainingRunInFlight ==
  \E i \in 1..Len(tasks) : tasks[i].kind \in {"trainTimer", "storageInit", "saveModel"}

\* setTrainingProgress({stage, percent}) entered in the history of the run;
\* a repeat of the last percent is not entered again
Report(log, percent) ==
  IF Len(log) > 0 /\ log[Len(log)] = percent THEN log ELSE Append(log, percent)

RECURSIVE ReportAll(_, _)
ReportAll(log, percents) ==
  IF Len(percents) = 0 THEN log ELSE ReportAll(Report(log, Head(percents)), Tail(percents))

\* the percents the training loop reports: Math.round(10 + (i / numTrees) * 50)
\* for every i below numTrees that is a multiple of every
RECURSIVE TreeReports(_, _, _)
TreeReports(i, numTrees, every) ==
  IF i >= numTrees THEN <<>>
  ELSE <<10 + (100 * i + numTrees) \div (2 * numTrees)>> \o TreeReports(i + every, numTrees, every)

\* the percents the timer callback of handleModelTrained reports, in order
CallbackReports(cl) ==
  <<8, 10>> \o TreeReports(0, cl.numTrees, IF cl.modelType = "randomForest" THEN 10 ELSE 15)
            \o <<70, 75, 100>>

\* a task of a training run carries a history field, modelBefore: the model
\* that was active when the run started

\* timers of equal delay fire in the order they were set
IsTimer(task) == task.kind \in {"trainTimer", "reEvaluateTimer"}
FirstTimer(i) == IsTimer(tasks[i]) /\ \A j \in 1..(i - 1) : ~IsTimer(tasks[j])

handleDataLoaded ==
  /\ sys = "fds"
  /\ \E data \in FdsDatasets :
       fds' = [fds EXCEPT !.realDataset = Rows(data), !.modelMetrics = Null,
                          !.trainedModel = Null, !.trainingProgress = 0,
                          !.trainedOn = Null]
  /\ reports' = IF TrainingRunInFlight THEN Report(reports, 0) ELSE reports
  /\ uiAlert' = "none"
  /\ UNCHANGED <<tasks, storedModel, ruleVars, storeVars, advVars, sys, apiVars, clsVars, fnVars, completed>>

\* the two model-type buttons
SelectModelType ==
  /\ sys = "fds"
  /\ \/ fds' = [fds EXCEPT !.modelType = "randomForest", !.threshold = 5000]
     \/ fds' = [fds EXCEPT !.modelType = "isolationForest", !.threshold = 6000]
  /\ uiAlert' = "none"
  /\ UNCHANGED <<reports, tasks, storedModel, ruleVars, storeVars, advVars, sys, apiVars, clsVars, fnVars, completed>>

\* the threshold slider and the feature-weighting checkbox (the other
\* sliders stay where they start)
ChangeSetting ==
  /\ sys = "fds"
  /\ \/ \E v \in SliderThresholds : fds' = [fds EXCEPT !.threshold = v]
     \/ \E b \in BOOLEAN : fds' = [fds EXCEPT !.useFeatureWeighting = b]
  /\ uiAlert' = "none"
  /\ UNCHANGED <<reports, tasks, storedModel, ruleVars, storeVars, advVars, sys, apiVars, clsVars, fnVars, completed>>

\* handleModelTrained up to setTimeout
handleModelTrained ==
  /\ sys = "fds"
  /\ IF fds.realDataset = Null
     THEN /\ uiAlert' = "Please upload a dataset first"
          /\ UNCHANGED <<fds, tasks, reports>>
     ELSE /\ Len(tasks) < MaxTasks
          /\ fds' = [fds EXCEPT !.training = TRUE, !.trainingProgress = 5]
          /\ reports' = <<5>>
          /\ tasks' = Append(tasks,
               [kind |-> "trainTimer", modelBefore |-> fds.trainedModel,
                closure |-> [realDataset |-> fds.realDataset.rows, modelType |-> fds.modelType,
                             threshold |-> fds.threshold, numTrees |-> fds.numTrees,
                             useFeatureWeighting |-> fds.useFeatureWeighting]])
          /\ uiAlert' = "none"
  /\ UNCHANGED <<storedModel, ruleVars, storeVars, advVars, sys, apiVars, clsVars, fnVars, completed>>

\* the timer callback of handleModelTrained, up to await modelStorage.init()
TrainCallback ==
  /\ sys = "fds"
  /\ \E i \in 1..Len(tasks) :
       /\ FirstTimer(i) /\ tasks[i].kind = "trainTimer"
       /\ \E run \in FdsTrainRuns :
            /\ run.closure = tasks[i].closure
            /\ fds' = [fds EXCEPT !.testData = Rows(run.testData), !.trainedModel = run.model,
                                  !.modelMetrics = run.metrics,
                                  !.confusionMatrix = run.metrics.confusionMatrix,
                                  !.trainingProgress = 100,
                                  !.trainedOn = Rows(run.closure.realDataset)]
            /\ tasks' = [tasks EXCEPT ![i] =
                 [kind |-> "storageInit", modelBefore |-> tasks[i].modelBefore, model |-> run.model,
                  metadata |-> [datasetSize |-> Len(run.closure.realDataset), metrics |-> run.metrics]]]
            /\ reports' = ReportAll(reports, CallbackReports(run.closure))
  /\ uiAlert' = "none"
  /\ UNCHANGED <<storedModel, ruleVars, storeVars, advVars, sys, apiVars, clsVars, fnVars, completed>>

\* catch and finally of the callback
TrainingFailed(i) ==
  /\ uiAlert' = "Training failed"
  /\ fds' = [fds EXCEPT !.training = FALSE]
  /\ tasks' = RemoveAt(tasks, i)
  /\ UNCHANGED <<storedModel, completed>>

\* await modelStorage.init() settles: the database opens, or the open fails
StorageInitSettles ==
  /\ sys = "fds"
  /\ \E i \in 1..Len(tasks) :
       /\ tasks[i].kind = "storageInit"
       /\ \/ /\ tasks' = [tasks EXCEPT ![i].kind = "saveModel"]
             /\ uiAlert' = "none"
             /\ UNCHANGED <<fds, storedModel, completed>>
          \/ TrainingFailed(i)
  /\ UNCHANGED <<reports, ruleVars, storeVars, advVars, sys, apiVars, clsVars, fnVars>>

\* await modelStorage.saveModel(model, metadata) settles: the model is
\* stored and made the active one, or the put fails
SaveModelSettles ==
  /\ sys = "fds"
  /\ \E i \in 1..Len(tasks) :
       /\ tasks[i].kind = "saveModel"
       /\ \/ /\ storedModel' = [type |-> tasks[i].model.type]
             /\ fds' = [fds EXCEPT !.training = FALSE]
             /\ tasks' = RemoveAt(tasks, i)
             /\ uiAlert' = "none"
             /\ completed' = TRUE
          \/ TrainingFailed(i)
  /\ UNCHANGED <<reports, ruleVars, storeVars, advVars, sys, apiVars, clsVars, fnVars>>

\* handleReEvaluate up to setTimeout
handleReEvaluate ==
  /\ sys = "fds"
  /\ IF fds.trainedModel = Null \/ fds.testData = Null
     THEN /\ uiAlert' = "Please train a model first"
          /\ UNCHANGED <<fds, tasks>>
     ELSE /\ Len(tasks) < MaxTasks
          /\ fds' = [fds EXCEPT !.training = TRUE, !.trainingProgress = 50]
          /\ tasks' = Append(tasks,
               [kind |-> "reEvaluateTimer", trainedModel |-> fds.trainedModel,
                testData |-> fds.testData.rows,
                ui |-> [threshold |-> fds.threshold,
                        useFeatureWeighting |-> fds.useFeatureWeighting]])
          /\ uiAlert' = "none"
  /\ UNCHANGED <<reports, storedModel, ruleVars, storeVars, advVars, sys, apiVars, clsVars, fnVars, completed>>

\* the timer callback of handleReEvaluate
ReEvaluateCallback ==
  /\ sys = "fds"
  /\ \E i \in 1..Len(tasks) :
       /\ FirstTimer(i) /\ tasks[i].kind = "reEvaluateTimer"
       /\ LET metrics == fdsEvaluateModel(tasks[i].trainedModel, tasks[i].testData, tasks[i].ui)
          IN fds' = [fds EXCEPT !.modelMetrics = metrics,
                                !.confusionMatrix = metrics.confusionMatrix,
                                !.trainingProgress = 100, !.training = FALSE]
       /\ tasks' = RemoveAt(tasks, i)
  /\ uiAlert' = "none"
  /\ UNCHANGED <<reports, storedModel, ruleVars, storeVars, advVars, sys, apiVars, clsVars, fnVars, completed>>

FdsNext ==
  \/ handleDataLoaded
  \/ SelectModelType
  \/ ChangeSetting
  \/ handleModelTrained
  \/ TrainCallback
  \/ StorageInitSettles
  \/ SaveModelSettles
  \/ handleReEvaluate
  \/ ReEvaluateCallback

(* ======================= src/utils/modelStorage.js ====================== *)
\* new IsolationForest(50, 128) and new LocalOutlierFactor(10) of MLFraudDetector
DetectorSubSampleSize == 128
DetectorK == 10

\* Math.random() on the grid
RandomGrid == 0..(RandDen - 1)

\* the feature vectors the detector's models are fitted on and asked about;
\* the distances between them are whole numbers (13, 13 and 10)
FeaturePool ==
  { [amount |-> Num(10), hour |-> Num(5)],
    [amount |-> Num(22), hour |-> Num(10)],
    [amount |-> Num(22)] }

FeatureSets == {SetToSeq(S) : S \in {T \in SUBSET FeaturePool : Cardinality(T) <= MaxData}}

\* Math.ceil(Math.log2(n)) for n >= 1
CeilLog2(n) == CHOOSE k \in 0..n : TwoTo(k) >= n /\ (k = 0 \/ TwoTo(k - 1) < n)

\* Object.keys(d).filter(k => typeof d[k] === 'number')
NumericKeys(d) == {k \in DOMAIN d : IsNum(d[k])}

\* IsolationForest.buildTree; maxDepth 0 stands for the null default
RECURSIVE IsolationForestBuildTree(_, _, _)
IsolationForestBuildTree(data, currentDepth, maxDepth) ==
  IF Len(data) <= 1 THEN {LeafNode(data)}
  ELSE LET md == IF maxDepth = 0 THEN CeilLog2(Len(data)) ELSE maxDepth
       IN IF currentDepth >= md THEN {LeafNode(data)}
          ELSE UNION {
            LET values == [i \in 1..Len(data) |-> Get(data[i], feature)]
                minVal == MathMin(values)
                maxVal == MathMax(values)
            IN IF JsStrictEqNum(minVal, maxVal) THEN {LeafNode(data)}
               ELSE UNION {
                 {InternalNode(feature, splitValue, l, r, data) :
                    l \in IsolationForestBuildTree(FilterLt(data, feature, splitValue), currentDepth + 1, md),
                    r \in IsolationForestBuildTree(FilterGe(data, feature, splitValue), currentDepth + 1, md)}
                 : splitValue \in RandomSplits(minVal, maxVal)}
            : feature \in RandomFeature(NumericKeys(data[1]))}

\* the tree lists fit(data) can leave in this.trees
IsolationForestFitTrees(self, data) ==
  LET treeSet == {TreeObject(t) :
                    t \in UNION {IsolationForestBuildTree(sample, 0, 0) :
                                   sample \in subsample(data, Min(self.subSampleSize, Len(data)))}}
  IN [1..self.numTrees -> treeSet]

\* Math.max(0, Math.min(1, x)) on a score in 1/10000; NaN stays NaN
Clamp01(x) == IF IsNaN(x) THEN NaN ELSE Num(IF x.num < 0 THEN 0 ELSE IF x.num > 10000 THEN 10000 ELSE x.num)

\* the scores IsolationForest.predict(point) can return, in 1/10000
IsolationForestPredict(self, point) ==
  IF ~self.trained \/ Len(self.trees) = 0
  THEN \* 0.5 + (Math.random() - 0.5) * 0.3
       {Num(5000 + ((((r * 10000) \div RandDen) - 5000) * 3) \div 10) : r \in RandomGrid}
  ELSE LET total == SumSeq([i \in 1..Len(self.trees) |-> pathLength(point, self.trees[i], 0)])
           cN == c(self.subSampleSize)
       IN {Clamp01(Pow2Neg(total, Len(self.trees) * cN))}

\* a[feature] || 0
OrZeroNum(v) == IF IsNum(v) THEN v.num ELSE 0

\* Math.sqrt of the squares in use
Sqrt(n) == CHOOSE r \in 0..n : r * r = n

euclideanDistance(a, b) ==
  LET features == <<"amount", "hour", "velocity", "frequency">>
      diff(i) == OrZeroNum(Get(a, features[i])) - OrZeroNum(Get(b, features[i]))
  IN Sqrt(SumSeq([i \in 1..Len(features) |-> diff(i) * diff(i)]))

\* the positions of this.data in the order of sort((a, b) => a.distance -
\* b.distance): by distance, equal distances in data order
RECURSIVE SortByDistance(_, _)
SortByDistance(distance, todo) ==
  IF todo = {} THEN <<>>
  ELSE LET first == CHOOSE i \in todo : \A j \in todo :
                      \/ distance[i] < distance[j]
                      \/ distance[i] = distance[j] /\ i <= j
       IN <<first>> \o SortByDistance(distance, todo \ {first})

\* this.data.map(d => this.euclideanDistance(point, d))
DistancesFrom(self, point) == [i \in 1..Len(self.data) |-> euclideanDistance(point, self.data[i])]

\* distances[Math.min(this.k - 1, distances.length - 1)]
kDistance(self, point) ==
  LET distance == DistancesFrom(self, point)
      order == SortByDistance(distance, 1..Len(self.data))
  IN distance[order[Min(self.k, Len(self.data))]]

\* distances.slice(0, this.k), as points
kNeighbors(self, point) ==
  LET order == SortByDistance(DistancesFrom(self, point), 1..Len(self.data))
  IN [i \in 1..Min(self.k, Len(self.data)) |-> self.data[order[i]]]

reachabilityDistance(self, a, b) ==
  LET kd == kDistance(self, b) d == euclideanDistance(a, b)
  IN IF kd > d THEN kd ELSE d

\* neighbors.length / (sum of reachability distances / neighbors.length)
localReachabilityDensity(self, point) ==
  LET neighbors == kNeighbors(self, point)
      total == SumSeq([i \in 1..Len(neighbors) |-> reachabilityDistance(self, point, neighbors[i])])
  IN JsDiv(Len(neighbors) * Len(neighbors), total)

\* Math.min(Math.max((lof - 1) / 4, 0), 1) in 1/10000, for a rational or Infinity
NormalizedLof(factor) ==
  IF factor = Infinity THEN 10000
  ELSE IF factor.rn <= factor.rd THEN 0
  ELSE IF factor.rn - factor.rd >= 4 * factor.rd THEN 10000
  ELSE ((factor.rn - factor.rd) * 10000) \div (4 * factor.rd)

\* a predict without the clamp of the normalized factor
LocalOutlierFactorPredict_unclamped(self, point) ==
  IF Len(self.data) < self.k
  THEN {Num((r * 4000) \div RandDen + 3000) : r \in RandomGrid}
  ELSE LET pointLrd == localReachabilityDensity(self, point)
           neighbors == kNeighbors(self, point)
           ratio(i) == LET neighborLrd == localReachabilityDensity(self, neighbors[i])
                       IN IF IsRat(neighborLrd) /\ neighborLrd.rn # 0
                          THEN [rn |-> neighborLrd.rn * pointLrd.rd, rd |-> neighborLrd.rd * pointLrd.rn]
                          ELSE [rn |-> pointLrd.rd, rd |-> pointLrd.rn]
           total == RatSum([i \in 1..Len(neighbors) |-> ratio(i)])
       IN IF ~IsRat(pointLrd) \/ pointLrd.rn = 0 THEN {Num(5000)}
          ELSE {Num(((total.rn - total.rd * Len(neighbors)) * 10000) \div (4 * total.rd * Len(neighbors)))}

\* the scores LocalOutlierFactor.predict(point) can return, in 1/10000: a
\* random value while fewer than k points are fitted, 0.5 for a zero or
\* non-finite density, the normalized factor otherwise
LocalOutlierFactorPredict(self, point) ==
  IF Len(self.data) < self.k
  THEN \* Math.random() * 0.4 + 0.3
       {Num((r * 4000) \div RandDen + 3000) : r \in RandomGrid}
  ELSE LET pointLrd == localReachabilityDensity(self, point)
           neighbors == kNeighbors(self, point)
           \* (neighborLrd || 1) / pointLrd
           ratio(i) == LET neighborLrd == localReachabilityDensity(self, neighbors[i])
                       IN IF neighborLrd = Infinity THEN Infinity
                          ELSE IF IsRat(neighborLrd) /\ neighborLrd.rn # 0
                          THEN [rn |-> neighborLrd.rn * pointLrd.rd, rd |-> neighborLrd.rd * pointLrd.rn]
                          ELSE [rn |-> pointLrd.rd, rd |-> pointLrd.rn]
           ratios == [i \in 1..Len(neighbors) |-> ratio(i)]
           factor == IF \E i \in 1..Len(ratios) : ratios[i] = Infinity THEN Infinity
                  ELSE LET total == RatSum(ratios)
                       IN [rn |-> total.rn, rd |-> total.rd * Len(neighbors)]
       IN IF ~IsRat(pointLrd) \/ pointLrd.rn = 0 THEN {Num(5000)}
          ELSE {Num(NormalizedLof(factor))}

\* the data the outlier factor is fitted on: the feature sets, and the whole pool
LofDatasets == FeatureSets \cup {SetToSeq(FeaturePool)}

\* the k the outlier factor is constructed with
LofKs == {1, 2, DetectorK}

ClsInit ==
  /\ isolationForest \in {[numTrees |-> n, subSampleSize |-> DetectorSubSampleSize,
                           trees |-> <<>>, trained |-> FALSE]
                            : n \in IF sys = "cls" THEN 1..MaxTrees ELSE {1}}
  /\ lof \in {[k |-> k, data |-> <<>>] : k \in IF sys = "det" THEN LofKs ELSE {DetectorK}}
  /\ detector = [trainingData |-> <<>>, svm |-> [supportVectors |-> <<>>]]
  /\ lastCall = [by |-> "none"]

\* the record of one predict call: whether it repeats the call before it
\* (same predictor, same point, no fit in between) and that call's score
ScoreRecord(by, point, score) ==
  [by |-> by, point |-> point, score |-> score,
   repeats |-> (lastCall.by = by /\ lastCall.point = point),
   previous |-> IF lastCall.by = by /\ lastCall.point = point THEN lastCall.score ELSE score]

\* the record of one fit call: its argument, whether it threw, and the
\* object as it was before the call
FitRecord(by, data, before) == [by |-> by, data |-> data, threw |-> FALSE, before |-> before]

\* the record of a lof.predict call, with whether it went on to compute
\* densities (it called localReachabilityDensity)
WithComputed(record, computed) ==
  [f \in DOMAIN record \cup {"computed"} |-> IF f = "computed" THEN computed ELSE record[f]]

\* isolationForest.fit(data)
IsolationForestFitCall ==
  /\ sys = "cls"
  /\ \E data \in FeatureSets :
       \E trees \in IsolationForestFitTrees(isolationForest, data) :
         /\ isolationForest' = [isolationForest EXCEPT !.trees = trees, !.trained = TRUE]
         /\ lastCall' = FitRecord("isolationForest.fit", data, isolationForest)
  /\ UNCHANGED <<lof, detector, ruleVars, storeVars, advVars, sys, apiVars, fdsVars, fnVars, completed>>

\* isolationForest.predict(point)
IsolationForestPredictCall ==
  /\ sys = "cls"
  /\ \E point \in FeaturePool :
       \E score \in IsolationForestPredict(isolationForest, point) :
         lastCall' = ScoreRecord("isolationForest.predict", point, score)
  /\ UNCHANGED <<isolationForest, lof, detector, ruleVars, storeVars, advVars, sys, apiVars, fdsVars, fnVars, completed>>

\* lof.fit(data): this.data = [...data]
LocalOutlierFactorFitCall ==
  /\ sys = "det"
  /\ \E data \in LofDatasets :
       /\ lof' = [lof EXCEPT !.data = data]
       /\ lastCall' = FitRecord("lof.fit", data, lof)
  /\ UNCHANGED <<isolationForest, detector, ruleVars, storeVars, advVars, sys, apiVars, fdsVars, fnVars, completed>>

\* lof.predict(point)
LocalOutlierFactorPredictCall ==
  /\ sys = "det"
  /\ \E point \in FeaturePool :
       \E score \in LocalOutlierFactorPredict(lof, point) :
         lastCall' = WithComputed(ScoreRecord("lof.predict", point, score), Len(lof.data) >= lof.k)
  /\ UNCHANGED <<isolationForest, lof, detector, ruleVars, storeVars, advVars, sys, apiVars, fdsVars, fnVars, completed>>

\* OneClassSVM.predict(point): 1 when the decision value of the point is
\* below rho, the least decision value of the fitted points (fewer than ten
\* are fitted).  Without support vectors the value is 0 and the result 0; a
\* fitted point is never below rho; with one support vector every other
\* point is.  Beyond these cases the comparison of sums of exponentials is
\* left open.
OneClassSVMPredict(self, point) ==
  IF Len(self.supportVectors) = 0 THEN {0}
  ELSE IF \E i \in 1..Len(self.supportVectors) : self.supportVectors[i] = point THEN {0}
  ELSE IF Len(self.supportVectors) = 1 THEN {1}
  ELSE {0, 1}

\* a risk tier whose medium band starts at 0.5
RiskLevel_mediumFromHalf(ensembleScore) ==
  IF ensembleScore > 70000 THEN "high" ELSE IF ensembleScore > 50000 THEN "medium" ELSE "low"

\* ensembleScore > 0.7 ? 'high' : ensembleScore > 0.4 ? 'medium' : 'low',
\* the score in 1/100000
RiskLevel(ensembleScore) ==
  IF ensembleScore > 70000 THEN "high" ELSE IF ensembleScore > 40000 THEN "medium" ELSE "low"

\* the results MLFraudDetector.predict can return for a feature vector: the
\* sub-scores in 1/10000 (svm is 0 or 1), the blend with the weights 0.4,
\* 0.3, 0.3 in 1/100000, clamped to [0,1]
MLFraudDetectorPredict(features) ==
  {LET ensembleScore == 4 * ifScore.num + 3 * lofScore.num + 3 * svmScore * 10000
   IN [ensembleScore |-> IF ensembleScore < 0 THEN 0
                         ELSE IF ensembleScore > 100000 THEN 100000 ELSE ensembleScore,
       isolationForest |-> ifScore, lof |-> lofScore, svm |-> svmScore,
       features |-> features, riskLevel |-> RiskLevel(ensembleScore)]
   : ifScore \in IsolationForestPredict(isolationForest, features),
     lofScore \in LocalOutlierFactorPredict(lof, features),
     svmScore \in OneClassSVMPredict(detector.svm, features)}

\* mlDetector.train(transactions), on the feature vectors of the
\* transactions: they join trainingData and the three models are fitted on
\* all of it (the detector's outlier factor is the one with k = 10)
MLFraudDetectorTrain ==
  /\ sys = "det"
  /\ lof.k = DetectorK
  /\ \E transactions \in FeatureSets :
       LET features == detector.trainingData \o transactions
       IN /\ Len(features) <= MaxData
          /\ \E trees \in IsolationForestFitTrees(isolationForest, features) :
               isolationForest' = [isolationForest EXCEPT !.trees = trees, !.trained = TRUE]
          /\ lof' = [lof EXCEPT !.data = features]
          /\ detector' = [trainingData |-> features,
                          svm |-> [supportVectors |-> features]]
          /\ lastCall' = [by |-> "detector.train", data |-> features]
  /\ UNCHANGED <<ruleVars, storeVars, advVars, sys, apiVars, fdsVars, fnVars, completed>>

\* mlDetector.predict(transaction)
MLFraudDetectorPredictCall ==
  /\ sys = "det"
  /\ lof.k = DetectorK
  /\ \E features \in FeaturePool :
       \E result \in MLFraudDetectorPredict(features) :
         lastCall' = [by |-> "detector.predict", point |-> features, result |-> result]
  /\ UNCHANGED <<isolationForest, lof, detector, ruleVars, storeVars, advVars, sys, apiVars, fdsVars, fnVars, completed>>

ClsNext ==
  \/ IsolationForestFitCall
  \/ IsolationForestPredictCall

\* the detector built on them, and its LocalOutlierFactor
DetNext ==
  \/ LocalOutlierFactorFitCall
  \/ LocalOutlierFactorPredictCall
  \/ MLFraudDetectorTrain
  \/ MLFraudDetectorPredictCall

(* -------- alerts of the monitoring component -------- *)
\* the explanations in the order generateExplanation pushes them; the
\* features are in 1/100 (velocity is a count)
ExplanationsOf(features) ==
  (IF features.amountZScore > 200 THEN <<"Amount significantly deviates from normal">> ELSE <<>>)
  \o (IF features.timeRisk > 50 THEN <<"Transaction at unusual time">> ELSE <<>>)
  \o (IF features.merchantRisk > 60 THEN <<"High-risk merchant category">> ELSE <<>>)
  \o (IF features.locationRisk > 60 THEN <<"Transaction from risky location">> ELSE <<>>)
  \o (IF features.velocity > 3 THEN <<"High transaction velocity detected">> ELSE <<>>)

\* a generateExplanation that returns the list as pushed
generateExplanation_noFallback(mlResult) == ExplanationsOf(mlResult.features)

\* explanations.length > 0 ? explanations : ['Multiple weak signals combined']
generateExplanation(mlResult) ==
  LET explanations == ExplanationsOf(mlResult.features)
  IN IF Len(explanations) > 0 THEN explanations ELSE <<"Multiple weak signals combined">>

\* generateMLAlert(transaction): the alert, or null
generateMLAlert(transaction) ==
  IF transaction.riskScore > 40
  THEN [type |-> "ML Anomaly Detection",
        transactionId |-> transaction.id,
        severity |-> IF transaction.riskScore > 70 THEN "high"
                     ELSE IF transaction.riskScore > 55 THEN "medium" ELSE "low",
        features |-> transaction.mlResult.features,
        explanation |-> generateExplanation(transaction.mlResult)]
  ELSE Null

(* ========================= the pure functions ========================== *)
\* the samples the tree builders are applied to: every ordering of up to
\* MaxSample records, labelled or not, complete or not
SamplePool == RecordPool \cup {[Amount |-> Num(20), Time |-> Num(5)]}

Samples ==
  UNION {Shuffles(SetToSeq(S)) : S \in {T \in SUBSET SamplePool : Cardinality(T) <= MaxSample}}

\* a bootstrap sample large enough for buildDecisionTree to split
\* (2 * minSamplesLeaf records and one more, which has no Time)
SplitSample ==
  << [Amount |-> Num(10), Time |-> Num(5), Class |-> Num(0)],
     [Amount |-> Num(20), Time |-> Num(10), Class |-> Num(1)],
     [Amount |-> Num(30), Time |-> Num(5), Class |-> Num(0)],
     [Amount |-> Num(40), Time |-> Num(10), Class |-> Num(1)],
     [Amount |-> Num(50), Time |-> Num(5), Class |-> Num(0)],
     [Amount |-> Num(60), Time |-> Num(10), Class |-> Num(1)],
     [Amount |-> Num(70), Time |-> Num(5), Class |-> Num(0)],
     [Amount |-> Num(80), Time |-> Num(10), Class |-> Num(1)],
     [Amount |-> Num(90), Time |-> Num(5), Class |-> Num(0)],
     [Amount |-> Num(100), Time |-> Num(10), Class |-> Num(1)],
     [Amount |-> Num(55), Class |-> Num(0)] >>

\* a bootstrap sample that buildDecisionTree splits twice: the best split
\* of the root leaves more than 2 * minSamplesLeaf records of both classes
\* on one side, which splits once more
DeepSample ==
  [i \in 1..20 |->
     [Amount |-> Num(i),
      Class |-> Num(IF i \in {3, 8, 11, 12, 13, 14, 15, 17, 19, 20} THEN 1 ELSE 0)]]

\* the maxDepth settings the tree builder is run with: the default, and one
\* small enough for the depth stop to cut a sample of this size
TreeDepths == {1, DefaultMaxDepth}

\* a training set whose isolation trees single out one record, so that
\* models trained on it score some records as fraud
EvalTrainSet ==
  << [Amount |-> Num(10), Class |-> Num(0)],
     [Amount |-> Num(10), Class |-> Str("0")],
     [Amount |-> Num(10), Class |-> Num(0), Time |-> Num(5)],
     [Amount |-> Num(100), Class |-> Num(1)] >>

\* the records of test sets
EvalPool ==
  { [Amount |-> Num(10), Class |-> Num(0)],
    [Amount |-> Num(100), Class |-> Num(1)],
    [Amount |-> Num(100), Class |-> Num(0)],
    [Amount |-> Num(10), Class |-> Str("1")] }

TestSets == UNION {[1..n -> EvalPool] : n \in 0..MaxTest}

\* the models evaluation is applied to, each with the engine it belongs to
EvalModels ==
  {[engine |-> "api", model |-> m] :
     m \in trainIsolationForest(EvalTrainSet,
             [numTrees |-> Num(1), subSampleSize |-> Undefined, testSplit |-> Undefined])}
  \cup UNION {{[engine |-> "fds", model |-> m] :
                 m \in fdsTrainIsolationForest(EvalTrainSet, params)
                       \cup trainRandomForest(EvalTrainSet, params)}
              : params \in {q \in FdsParams : OneTree(q)}}

\* the models prediction is applied to: every model training on one of the
\* non-empty datasets can produce
PredictModels ==
  {[engine |-> "api", model |-> run.out.model] : run \in {r \in ApiTrainRuns : r.out.status = 200}}
  \cup UNION {{[engine |-> "fds", model |-> m] :
                 m \in fdsTrainIsolationForest(d, params) \cup trainRandomForest(d, params)}
              : d \in NonEmptyDatasets, params \in FdsParams}

\* one side of a split: f fraud records followed by l legitimate ones
Side(f, l) ==
  [i \in 1..(f + l) |-> IF i <= f THEN [Amount |-> Num(10), Class |-> Num(1)]
                        ELSE [Amount |-> Num(10), Class |-> Num(0)]]

Sides == {Side(f, l) : f \in 0..MaxSide, l \in 0..MaxSide}

\* the class weights the function is applied with: 1 and the default
ClassWeights == {1, DefaultClassWeight}

\* SplitSample with the roles of Amount and Time exchanged, without its last
\* record: a sample buildDecisionTree splits on Amount
SplitSampleByAmount ==
  [i \in 1..(Len(SplitSample) - 1) |->
     [Amount |-> SplitSample[i].Time, Time |-> SplitSample[i].Amount, Class |-> SplitSample[i].Class]]

\* the trees buildDecisionTree returns for the two samples it can split
SplitTrees ==
  {TreeObjectRF(t) :
     t \in UNION {buildDecisionTree(s, 0, getFeatureNames(s),
                                    [maxDepth |-> DefaultMaxDepth, classWeight |-> DefaultClassWeight])
                  : s \in {SplitSample, SplitSampleByAmount}}}

\* forests of such trees
SplitForests ==
  {[type |-> "randomForest", trees |-> trees, numTrees |-> Len(trees),
    featureNames |-> {"Amount", "Time"}, maxDepth |-> DefaultMaxDepth,
    classWeight |-> DefaultClassWeight] :
     trees \in UNION {[1..n -> SplitTrees] : n \in 1..MaxTrees}}

\* the records the forests are asked about: complete, without Time, with a
\* text for Amount, with an empty (NaN) cell for Time, without any feature
ForestTransactions ==
  { [Amount |-> Num(30), Time |-> Num(10), Class |-> Num(1)],
    [Amount |-> Num(20), Class |-> Num(0)],
    [Amount |-> Str("N/A"), Time |-> Num(5), Class |-> Num(0)],
    [Amount |-> Num(5), Time |-> NaN, Class |-> Num(0)],
    [Class |-> Str("1")] }

\* training data large enough for the fraud share of a bootstrap sample to
\* be more than one record: one fraud record among seven, and one among four
BootstrapData ==
  { Side(1, 6), Side(1, 3) }

\* the feature values on either side of each threshold of generateExplanation
\* (the risks are values of getTimeRisk, getMerchantRisk, getLocationRisk)
AlertFeatures ==
  [amountZScore : {0, 200, 250}, timeRisk : {20, 60, 80}, merchantRisk : {30, 60, 80},
   locationRisk : {20, 70}, velocity : {3, 4}]

\* assessed transactions: approved (riskScore <= 40), flagged, blocked (> 70)
AssessedTransactions ==
  {[id |-> 1, riskScore |-> rs, status |-> IF rs > 70 THEN "blocked" ELSE IF rs > 40 THEN "flagged" ELSE "approved",
    mlResult |-> [features |-> f]] : rs \in {40, 41, 56, 71}, f \in AlertFeatures}

\* the datasets the split is applied to: SplitSize records, and one
SplitSize == 5
SplitDatasets ==
  {[i \in 1..n |-> [Amount |-> Num(10 * i), Time |-> Num(i), Class |-> Num(0)]] : n \in {1, SplitSize}}

\* config.testSplit of a train request, in percent: absent, 0, a half, all
TestSplits == {Undefined, Num(0), Num(50), Num(100)}

\* the split of handleModelTrained: the first floor(n * 0.2) records of the
\* shuffled dataset are the test set
fdsSplitDataset(realDataset) ==
  LET testSize == (Len(realDataset) * 2) \div 10
  IN {[trainData |-> SubSeq(shuffled, testSize + 1, Len(shuffled)),
       testData |-> SubSeq(shuffled, 1, testSize)] : shuffled \in shuffleArray(realDataset)}

FnInputs ==
  {[kind |-> "sample", data |-> d] : d \in Samples}
  \cup {[kind |-> "bootstrap", data |-> d] : d \in {SplitSample, DeepSample}}
  \cup {[kind |-> "record", transaction |-> tx] : tx \in ForestTransactions}
  \cup {[kind |-> "gini", left |-> l, right |-> r, classWeight |-> w] :
          l \in Sides, r \in Sides, w \in ClassWeights}
  \cup {[kind |-> "trainData", data |-> d] : d \in BootstrapData}
  \cup {[kind |-> "split", engine |-> "api", data |-> d, testSplit |-> ts] :
          d \in SplitDatasets, ts \in TestSplits}
  \cup {[kind |-> "split", engine |-> "fds", data |-> d, testSplit |-> Undefined] :
          d \in SplitDatasets}
  \cup {[kind |-> "assessed", transaction |-> tx] : tx \in AssessedTransactions}
  \cup {[kind |-> "forest", model |-> m, transaction |-> tx, threshold |-> th] :
          m \in SplitForests, tx \in ForestTransactions, th \in Thresholds}
  \cup {[kind |-> "eval", engine |-> em.engine, model |-> em.model, testData |-> t, ui |-> ui] :
          em \in EvalModels, t \in TestSets, ui \in UiSettings}
  \cup {[kind |-> "predict", engine |-> pm.engine, model |-> pm.model, transaction |-> tx, ui |-> ui] :
          pm \in PredictModels, tx \in ApiTransactions, ui \in UiSettings}

FnInit ==
  /\ fnInput \in IF sys = "fn" THEN FnInputs ELSE {[kind |-> "none"]}
  /\ fnResult = [fn |-> "none"]

\* buildTree(sample) of api.js
ApplyBuildTree ==
  /\ sys = "fn"
  /\ fnInput.kind = "sample"
  /\ \E tree \in buildTree(fnInput.data, 0) :
       fnResult' = [fn |-> "buildTree", tree |-> tree]
  /\ UNCHANGED <<fnInput, ruleVars, storeVars, advVars, sys, apiVars, fdsVars, clsVars, completed>>

\* buildIsolationTree(weightedSample) of the component
ApplyBuildIsolationTree ==
  /\ sys = "fn"
  /\ fnInput.kind = "sample"
  /\ \E useFeatureWeighting \in BOOLEAN :
       \E tree \in buildIsolationTree([i \in 1..Len(fnInput.data) |->
                     applyFeatureWeighting(fnInput.data[i], useFeatureWeighting)], 0) :
         fnResult' = [fn |-> "buildIsolationTree", tree |-> tree]
  /\ UNCHANGED <<fnInput, ruleVars, storeVars, advVars, sys, apiVars, fdsVars, clsVars, completed>>

\* buildDecisionTree(bootstrapSample, 0, featureNames)
ApplyBuildDecisionTree ==
  /\ sys = "fn"
  /\ fnInput.kind \in {"sample", "bootstrap"}
  /\ \E maxDepth \in TreeDepths :
       \E tree \in buildDecisionTree(fnInput.data, 0, getFeatureNames(fnInput.data),
                                     [maxDepth |-> maxDepth, classWeight |-> DefaultClassWeight]) :
         fnResult' = [fn |-> "buildDecisionTree", tree |-> tree, maxDepth |-> maxDepth]
  /\ UNCHANGED <<fnInput, ruleVars, storeVars, advVars, sys, apiVars, fdsVars, clsVars, completed>>

\* trainRandomForest(trainData)
ApplyTrainRandomForest ==
  /\ sys = "fn"
  /\ fnInput.kind = "sample"
  /\ \E params \in FdsParams :
       \E model \in trainRandomForest(fnInput.data, params) :
         fnResult' = [fn |-> "trainRandomForest", model |-> model]
  /\ UNCHANGED <<fnInput, ruleVars, storeVars, advVars, sys, apiVars, fdsVars, clsVars, completed>>

\* evaluateModel(model, testData) of api.js
ApplyEvaluateModel ==
  /\ sys = "fn"
  /\ fnInput.kind = "eval" /\ fnInput.engine = "api"
  /\ fnResult' = [fn |-> "evaluateModel", metrics |-> evaluateModel(fnInput.model, fnInput.testData)]
  /\ UNCHANGED <<fnInput, ruleVars, storeVars, advVars, sys, apiVars, fdsVars, clsVars, completed>>

\* evaluateModel(model, testDataSet) of the component, and the evaluation
\* handleReEvaluate inlines
ApplyFdsEvaluateModel ==
  /\ sys = "fn"
  /\ fnInput.kind = "eval" /\ fnInput.engine = "fds"
  /\ fnResult' = [fn |-> "fdsEvaluateModel",
                  metrics |-> fdsEvaluateModel(fnInput.model, fnInput.testData, fnInput.ui)]
  /\ UNCHANGED <<fnInput, ruleVars, storeVars, advVars, sys, apiVars, fdsVars, clsVars, completed>>

\* predictTransaction(transaction, model) of api.js
ApplyPredictTransaction ==
  /\ sys = "fn"
  /\ fnInput.kind = "predict" /\ fnInput.engine = "api"
  /\ fnResult' = [fn |-> "predictTransaction",
                  prediction |-> predictTransaction(fnInput.transaction, fnInput.model)]
  /\ UNCHANGED <<fnInput, ruleVars, storeVars, advVars, sys, apiVars, fdsVars, clsVars, completed>>

\* predictRandomForest / predictIsolationForest of the component
ApplyPredictFn ==
  /\ sys = "fn"
  /\ fnInput.kind = "predict" /\ fnInput.engine = "fds"
  /\ fnResult' = [fn |-> IF fnInput.model.type = "randomForest"
                         THEN "predictRandomForest" ELSE "predictIsolationForest",
                  prediction |-> predictFn(fnInput.transaction, fnInput.model, fnInput.ui)]
  /\ UNCHANGED <<fnInput, ruleVars, storeVars, advVars, sys, apiVars, fdsVars, clsVars, completed>>

\* calculateWeightedGini(leftData, rightData); with no record on either side
\* both shares are 0 / 0 and the sum is NaN
ApplyCalculateWeightedGini ==
  /\ sys = "fn"
  /\ fnInput.kind = "gini"
  /\ fnResult' = [fn |-> "calculateWeightedGini",
                  gini |-> IF Len(fnInput.left) + Len(fnInput.right) = 0 THEN NaN
                           ELSE Num(calculateWeightedGini(fnInput.left, fnInput.right,
                                                          fnInput.classWeight))]
  /\ UNCHANGED <<fnInput, ruleVars, storeVars, advVars, sys, apiVars, fdsVars, clsVars, completed>>

\* predictRandomForest(transaction, model) on a forest with internal nodes;
\* probabilities is the array of the trees' contributions
ApplyPredictRandomForest ==
  /\ sys = "fn"
  /\ fnInput.kind = "forest"
  /\ fnResult' = [fn |-> "predictRandomForest",
                  probabilities |-> [i \in 1..Len(fnInput.model.trees) |->
                                       predictWithTreeInline(fnInput.transaction, fnInput.model.trees[i])],
                  prediction |-> predictRandomForest(fnInput.transaction, fnInput.model, fnInput.threshold)]
  /\ UNCHANGED <<fnInput, ruleVars, storeVars, advVars, sys, apiVars, fdsVars, clsVars, completed>>

\* one round of the loop of trainRandomForest up to its bootstrap sample
ApplyBootstrapSample ==
  /\ sys = "fn"
  /\ fnInput.kind \in {"sample", "trainData"}
  /\ \E sample \in BootstrapSamples(fnInput.data) :
       fnResult' = [fn |-> "bootstrapSample", sample |-> sample]
  /\ UNCHANGED <<fnInput, ruleVars, storeVars, advVars, sys, apiVars, fdsVars, clsVars, completed>>

\* generateMLAlert(assessedTransaction)
ApplyGenerateMLAlert ==
  /\ sys = "fn"
  /\ fnInput.kind = "assessed"
  /\ fnResult' = [fn |-> "generateMLAlert", alert |-> generateMLAlert(fnInput.transaction)]
  /\ UNCHANGED <<fnInput, ruleVars, storeVars, advVars, sys, apiVars, fdsVars, clsVars, completed>>

\* the split of one training call: lines 88-90 of the train route, or lines
\* 422-427 of handleModelTrained
ApplySplitDataset ==
  /\ sys = "fn"
  /\ fnInput.kind = "split"
  /\ \E split \in IF fnInput.engine = "api"
                  THEN splitDataset(fnInput.data, OrDefault(fnInput.testSplit, ApiDefaultTestSplit))
                  ELSE fdsSplitDataset(fnInput.data) :
       fnResult' = [fn |-> "splitDataset", trainData |-> split.trainData,
                    testData |-> split.testData]
  /\ UNCHANGED <<fnInput, ruleVars, storeVars, advVars, sys, apiVars, fdsVars, clsVars, completed>>

\* the scaling of one record on its two ways through the isolation forest:
\* sample.map(applyFeatureWeighting) before the trees are built, and the
\* inline weighting of predictIsolationForest before the record is scored
ApplyFeatureScaling ==
  /\ sys = "fn"
  /\ fnInput.kind = "record"
  /\ \E useFeatureWeighting \in BOOLEAN :
       fnResult' = [fn |-> "featureScaling", useFeatureWeighting |-> useFeatureWeighting,
                    atTraining |-> applyFeatureWeighting(fnInput.transaction, useFeatureWeighting),
                    atScoring |-> WeightedTransaction(fnInput.transaction, useFeatureWeighting)]
  /\ UNCHANGED <<fnInput, ruleVars, storeVars, advVars, sys, apiVars, fdsVars, clsVars, completed>>

FnNext ==
  \/ ApplyBuildTree
  \/ ApplyBuildIsolationTree
  \/ ApplyBuildDecisionTree
  \/ ApplyTrainRandomForest
  \/ ApplyEvaluateModel
  \/ ApplyFdsEvaluateModel
  \/ ApplyPredictTransaction
  \/ ApplyPredictFn
  \/ ApplyCalculateWeightedGini
  \/ ApplyPredictRandomForest
  \/ ApplyBootstrapSample
  \/ ApplyGenerateMLAlert
  \/ ApplySplitDataset
  \/ ApplyFeatureScaling

(* ======================= the rule-based variant ========================= *)
\* part_000: the monitoring loop and the behavioural profiles it keeps

\* the length riskHistory is cut back to
RiskHistoryCap == 10

RECURSIVE Gcd(_, _)
Gcd(a, b) == IF b = 0 THEN a ELSE Gcd(b, a % b)

\* a rational in lowest terms
Reduced(n, d) == LET g == Gcd(n, d) IN [rn |-> n \div g, rd |-> d \div g]

\* transaction.status of generateTransaction
StatusOf(riskScore) ==
  IF riskScore > 70 THEN "blocked" ELSE IF riskScore > 40 THEN "flagged" ELSE "approved"

\* transactions generateTransaction can return: the random fields drawn from
\* their lists, riskScore one of the values calculateRiskScore can return
GeneratedTransactions ==
  { [userId |-> "USER_1", amount |-> 100, merchant |-> "Amazon", hour |-> 3,
     location |-> "New York, NY", riskScore |-> 30, status |-> StatusOf(30)],
    [userId |-> "USER_1", amount |-> 12000, merchant |-> "Crypto Exchange", hour |-> 3,
     location |-> "High Risk Location", riskScore |-> 80, status |-> StatusOf(80)],
    [userId |-> "USER_2", amount |-> 2500, merchant |-> "Walmart", hour |-> 14,
     location |-> "Chicago, IL", riskScore |-> 50, status |-> StatusOf(50)] }

UserIds == {t.userId : t \in GeneratedTransactions}

\* map.get(key) || 0
CountOf(map, key) == IF key \in DOMAIN map THEN map[key] ELSE 0

\* map.set(key, value)
MapSet(map, key, value) == [k \in DOMAIN map \cup {key} |-> IF k = key THEN value ELSE map[k]]

NewProfile ==
  [totalTransactions |-> 0, avgAmount |-> [rn |-> 0, rd |-> 1], preferredMerchants |-> <<>>,
   timePatterns |-> [h \in 0..23 |-> 0], locationPatterns |-> <<>>, riskHistory |-> <<>>]

\* riskHistory after the push, without the shift
PushRisk_unbounded(riskHistory, riskScore) == Append(riskHistory, riskScore)

\* push, then shift when the length exceeds the cap
PushRisk(riskHistory, riskScore) ==
  LET pushed == Append(riskHistory, riskScore)
  IN IF Len(pushed) > RiskHistoryCap THEN Tail(pushed) ELSE pushed

\* an update that enters a merchant with the count 1 whatever its count was
updateUserProfile_merchantSeenOnce(userProfiles, transaction) ==
  LET userId == transaction.userId
      profile == IF userId \in DOMAIN userProfiles THEN userProfiles[userId] ELSE NewProfile
      total == profile.totalTransactions + 1
      avg == profile.avgAmount
      updated ==
        [totalTransactions |-> total,
         avgAmount |-> Reduced(avg.rn * (total - 1) + transaction.amount * avg.rd, avg.rd * total),
         preferredMerchants |-> MapSet(profile.preferredMerchants, transaction.merchant, 1),
         timePatterns |-> [profile.timePatterns EXCEPT ![transaction.hour] = @ + 1],
         locationPatterns |-> MapSet(profile.locationPatterns, transaction.location,
                                     CountOf(profile.locationPatterns, transaction.location) + 1),
         riskHistory |-> PushRisk(profile.riskHistory, transaction.riskScore)]
  IN MapSet(userProfiles, userId, updated)

\* userProfiles after updateUserProfile(transaction)
updateUserProfile(userProfiles, transaction) ==
  LET userId == transaction.userId
      profile == IF userId \in DOMAIN userProfiles THEN userProfiles[userId] ELSE NewProfile
      total == profile.totalTransactions + 1
      avg == profile.avgAmount
      updated ==
        [totalTransactions |-> total,
         avgAmount |-> Reduced(avg.rn * (total - 1) + transaction.amount * avg.rd, avg.rd * total),
         preferredMerchants |-> MapSet(profile.preferredMerchants, transaction.merchant,
                                       CountOf(profile.preferredMerchants, transaction.merchant) + 1),
         timePatterns |-> [profile.timePatterns EXCEPT ![transaction.hour] = @ + 1],
         locationPatterns |-> MapSet(profile.locationPatterns, transaction.location,
                                     CountOf(profile.locationPatterns, transaction.location) + 1),
         riskHistory |-> PushRisk(profile.riskHistory, transaction.riskScore)]
  IN MapSet(userProfiles, userId, updated)

\* the number of transactions processed so far
RECURSIVE ArrivalsOf(_)
ArrivalsOf(S) ==
  IF S = {} THEN 0
  ELSE LET u == CHOOSE x \in S : TRUE IN Len(arrivals[u]) + ArrivalsOf(S \ {u})

Processed == ArrivalsOf(UserIds)

RuleInit ==
  /\ mlModel = [userProfiles |-> <<>>]
  /\ isMonitoring = FALSE
  /\ stats = [totalTransactions |-> 0, flaggedTransactions |-> 0, blockedTransactions |-> 0,
              riskScore |-> 0]
  /\ arrivals = [u \in UserIds |-> <<>>]

\* toggleMonitoring: starts the interval, or clears it
ToggleMonitoring ==
  /\ sys = "rule"
  /\ isMonitoring' = ~isMonitoring
  /\ UNCHANGED <<mlModel, stats, arrivals>>
  /\ UNCHANGED <<storeVars, advVars, sys, apiVars, fdsVars, clsVars, fnVars, completed>>

\* one firing of the interval: a transaction is generated, the profile of its
\* user updated and the statistics advanced
MonitoringTick ==
  /\ sys = "rule"
  /\ isMonitoring
  /\ Processed < MaxArrivals
  /\ \E newTransaction \in GeneratedTransactions :
       /\ mlModel' = [mlModel EXCEPT !.userProfiles = updateUserProfile(@, newTransaction)]
       /\ stats' =
            [totalTransactions |-> stats.totalTransactions + 1,
             flaggedTransactions |-> stats.flaggedTransactions
                                       + (IF newTransaction.status = "flagged" THEN 1 ELSE 0),
             blockedTransactions |-> stats.blockedTransactions
                                       + (IF newTransaction.status = "blocked" THEN 1 ELSE 0),
             riskScore |-> (stats.riskScore + newTransaction.riskScore + 1) \div 2]
       /\ arrivals' = [arrivals EXCEPT ![newTransaction.userId] = Append(@, newTransaction)]
  /\ UNCHANGED isMonitoring
  /\ UNCHANGED <<storeVars, advVars, sys, apiVars, fdsVars, clsVars, fnVars, completed>>

RuleNext == ToggleMonitoring \/ MonitoringTick

(* ============================ ModelStorage ============================== *)
\* modelStorage.js 3-262: trained models kept in IndexedDB, serialized as JSON

\* JSON's null literal, as it stands in a serialized document
JsonNull == [lit |-> "null"]

\* JSON.stringify of a number: NaN and the infinities are written as null
StringifyNumber(v) == IF IsNaN(v) \/ v = Infinity THEN JsonNull ELSE v

\* JSON.parse of a number or a null literal
ParseNumber(d) == IF d = JsonNull THEN Null ELSE d

RECURSIVE StringifyTree(_)
StringifyTree(t) ==
  IF t.type = "leaf"
  THEN IF "probability" \in DOMAIN t THEN [t EXCEPT !.probability = StringifyNumber(@)] ELSE t
  ELSE [t EXCEPT !.splitValue = StringifyNumber(@),
                 !.left = StringifyTree(@), !.right = StringifyTree(@)]

RECURSIVE ParseTree(_)
ParseTree(t) ==
  IF t.type = "leaf"
  THEN IF "probability" \in DOMAIN t THEN [t EXCEPT !.probability = ParseNumber(@)] ELSE t
  ELSE [t EXCEPT !.splitValue = ParseNumber(@), !.left = ParseTree(@), !.right = ParseTree(@)]

\* JSON.stringify(model): the document, kept as a structure
JsonStringify(model) == [model EXCEPT !.trees = [i \in DOMAIN @ |-> StringifyTree(@[i])]]

\* JSON.parse of such a document
JsonParse(doc) == [doc EXCEPT !.trees = [i \in DOMAIN @ |-> ParseTree(@[i])]]

\* the datasets the saved models were trained on: a header-only upload and
\* the two-record upload
StoredTrainData == {<<>>} \cup {d \in FdsDatasets : Len(d) = 2}

\* the models handleModelTrained passes to saveModel, one tree each
StoredModels ==
  UNION {trainRandomForest(d, params)
           \cup {m \in fdsTrainIsolationForest(d, params) : "type" \in DOMAIN m}
         : d \in StoredTrainData, params \in {q \in FdsParams : OneTree(q) /\ q.useFeatureWeighting}}

\* the values Date.now() takes
MaxClock == 1
ModelIds == 0..MaxClock

\* the model field of a record whose model is an object, not a text
JsObject(model) == [object |-> model]
IsJsObject(v) == "object" \in DOMAIN v

\* a file that exportModel wrote in an earlier session of the page, with
\* the model it was saved from
EarlierDownload ==
  LET model == CHOOSE m \in StoredModels : TRUE
  IN [text |-> [id |-> 0, model |-> JsonStringify(JsonParse(JsonStringify(model))),
                metadata |-> [savedAt |-> 0, version |-> 1]],
      saved |-> model]

StoreInit ==
  /\ modelStore = [models |-> <<>>, activeModelId |-> Null]
  /\ now = 0
  /\ storeCall = [by |-> "none"]
  /\ saved = <<>>
  /\ db = FALSE
  /\ download = Null
  /\ clearing = 0

\* time passes
ClockAdvances ==
  /\ sys = "store"
  /\ now < MaxClock
  /\ now' = now + 1
  /\ UNCHANGED <<modelStore, storeCall, saved, db, download, clearing>>
  /\ UNCHANGED <<ruleVars, advVars, sys, apiVars, fdsVars, clsVars, fnVars, completed>>

\* saveModel(model, metadata), from the call to the resolution of its promise
SaveModel ==
  /\ sys = "store"
  /\ \E model \in StoredModels :
       LET modelData == [id |-> now, model |-> JsonStringify(model),
                         metadata |-> [savedAt |-> now, version |-> 1]]
       IN /\ modelStore' = [models |-> MapSet(modelStore.models, modelData.id, modelData),
                            activeModelId |-> Str(modelData.id)]
          /\ storeCall' = [by |-> "saveModel", resolved |-> TRUE, result |-> modelData.id]
          /\ saved' = MapSet(saved, modelData.id, model)
  /\ db' = TRUE
  /\ UNCHANGED <<now, download, clearing>>
  /\ UNCHANGED <<ruleVars, advVars, sys, apiVars, fdsVars, clsVars, fnVars, completed>>

\* the promise of loadModel(modelId): resolved with the record and its
\* parsed model, rejected when there is no record, and never settled when
\* JSON.parse throws in the success handler because the stored model is an
\* object ("[object Object]" is no JSON text)
loadModel(modelId) ==
  IF modelId \notin DOMAIN modelStore.models
  THEN [resolved |-> FALSE, result |-> "Model not found"]
  ELSE IF IsJsObject(modelStore.models[modelId].model)
  THEN [resolved |-> FALSE, result |-> "uncaught SyntaxError"]
  ELSE [resolved |-> TRUE,
        result |-> [modelStore.models[modelId] EXCEPT !.model = JsonParse(@)]]

\* loadModel(modelId), from the call to the settling of its promise
LoadModel ==
  /\ sys = "store"
  /\ \E modelId \in ModelIds :
       storeCall' = [by |-> "loadModel", modelId |-> modelId,
                     resolved |-> loadModel(modelId).resolved,
                     result |-> loadModel(modelId).result]
  /\ db' = TRUE
  /\ UNCHANGED <<modelStore, now, saved, download, clearing>>
  /\ UNCHANGED <<ruleVars, advVars, sys, apiVars, fdsVars, clsVars, fnVars, completed>>

\* localStorage.getItem('activeModelId') === modelId (localStorage keeps the
\* id as a string, or null)
IsActive(modelId) ==
  modelStore.activeModelId = Str(modelId)

\* a deleteModel that leaves the active id alone
DeleteModel_keepsActive ==
  /\ sys = "store"
  /\ \E modelId \in ModelIds :
       /\ modelStore' =
            [modelStore EXCEPT
               !.models = [id \in DOMAIN modelStore.models \ {modelId} |-> modelStore.models[id]]]
       /\ storeCall' = [by |-> "deleteModel", modelId |-> modelId, resolved |-> TRUE,
                        result |-> Undefined]
  /\ db' = TRUE
  /\ UNCHANGED <<now, saved, download, clearing>>
  /\ UNCHANGED <<ruleVars, advVars, sys, apiVars, fdsVars, clsVars, fnVars, completed>>

\* deleteModel(modelId), from the call to the resolution of its promise
DeleteModel ==
  /\ sys = "store"
  /\ \E modelId \in ModelIds :
       /\ modelStore' =
            [models |-> [id \in DOMAIN modelStore.models \ {modelId} |-> modelStore.models[id]],
             activeModelId |-> IF IsActive(modelId) THEN Null ELSE modelStore.activeModelId]
       /\ storeCall' = [by |-> "deleteModel", modelId |-> modelId, resolved |-> TRUE,
                        result |-> Undefined]
  /\ db' = TRUE
  /\ UNCHANGED <<now, saved, download, clearing>>
  /\ UNCHANGED <<ruleVars, advVars, sys, apiVars, fdsVars, clsVars, fnVars, completed>>

\* exportModel(modelId): the record loadModel resolves with, written out with
\* JSON.stringify and handed to the browser as a download
ExportModel ==
  /\ sys = "store"
  /\ \E modelId \in ModelIds :
       LET loaded == loadModel(modelId)
       IN /\ storeCall' = [by |-> "exportModel", modelId |-> modelId,
                           resolved |-> loaded.resolved,
                           result |-> IF loaded.resolved THEN Undefined ELSE loaded.result]
          /\ download' =
               IF loaded.resolved
               THEN [text |-> [loaded.result EXCEPT !.model = JsonStringify(@)],
                     saved |-> saved[modelId]]
               ELSE download
  /\ db' = TRUE
  /\ UNCHANGED <<modelStore, now, saved, clearing>>
  /\ UNCHANGED <<ruleVars, advVars, sys, apiVars, fdsVars, clsVars, fnVars, completed>>

\* importModel(file) of a file exportModel wrote: the parsed record is put
\* under a new id as it is, its model an object; this.db is used without
\* init(), and nothing sets the active id
ImportModel ==
  /\ sys = "store"
  /\ \E file \in {EarlierDownload} \cup (IF download = Null THEN {} ELSE {download}) :
       IF ~db
       THEN /\ storeCall' = [by |-> "importModel", resolved |-> FALSE, result |-> "TypeError"]
            /\ UNCHANGED <<modelStore, saved>>
       ELSE LET modelData == [file.text EXCEPT !.id = now, !.model = JsObject(JsonParse(@))]
            IN /\ modelStore' = [modelStore EXCEPT
                                   !.models = MapSet(@, modelData.id, modelData)]
               /\ storeCall' = [by |-> "importModel", resolved |-> TRUE, result |-> modelData.id]
               /\ saved' = MapSet(saved, modelData.id, file.saved)
  /\ UNCHANGED <<now, db, download, clearing>>
  /\ UNCHANGED <<ruleVars, advVars, sys, apiVars, fdsVars, clsVars, fnVars, completed>>

\* the clearAll calls that may be in flight together
MaxClearing == 1

\* clearAll(), up to its await: the three stores are cleared
ClearAllStores ==
  /\ sys = "store"
  /\ clearing < MaxClearing
  /\ modelStore' = [modelStore EXCEPT !.models = <<>>]
  /\ clearing' = clearing + 1
  /\ db' = TRUE
  /\ UNCHANGED <<now, storeCall, saved, download>>
  /\ UNCHANGED <<ruleVars, advVars, sys, apiVars, fdsVars, clsVars, fnVars, completed>>

\* clearAll(), after its await: the active id is removed
ClearAllSettles ==
  /\ sys = "store"
  /\ clearing > 0
  /\ modelStore' = [modelStore EXCEPT !.activeModelId = Null]
  /\ clearing' = clearing - 1
  /\ storeCall' = [by |-> "clearAll", resolved |-> TRUE, result |-> Undefined]
  /\ UNCHANGED <<now, saved, db, download>>
  /\ UNCHANGED <<ruleVars, advVars, sys, apiVars, fdsVars, clsVars, fnVars, completed>>

StoreNext ==
  \/ ClockAdvances
  \/ SaveModel
  \/ LoadModel
  \/ DeleteModel
  \/ ExportModel
  \/ ImportModel
  \/ ClearAllStores
  \/ ClearAllSettles

(* ===================== the advanced dashboard ========================== *)
\* array.slice(0, n)
Slice(array, n) == SubSeq(array, 1, Min(n, Len(array)))

\* the transactions one behaviour processes
MaxProcessed == 22

\* the ensemble scores mlDetector.predict returns, in 1/100000, by the state
\* of the detector.  Before any train() the isolation forest returns
\* 0.5 + (random - 0.5) * 0.3, the outlier factor random * 0.4 + 0.3 and the
\* SVM 0, so the blend lies in [0.23, 0.47); afterwards the three scores lie
\* in [0, 1].  Each draw names the score for either case.
Draw(untrained, trained) == [untrained |-> untrained, trained |-> trained]

\* the sequences of draws a behaviour repeats: every transaction suspicious;
\* quiet and suspicious ones in turn; and scores just above the two
\* thresholds 0.4 and 0.7 among them
DrawSchedules ==
  { << Draw(45000, 80000) >>,
    << Draw(30000, 20000), Draw(45000, 80000) >>,
    << Draw(40200, 70400), Draw(30000, 60000), Draw(46000, 54000) >> }

\* the feature vector of the generated transactions
AdvFeatures ==
  [amountZScore |-> 0, timeRisk |-> 20, merchantRisk |-> 30, locationRisk |-> 20, velocity |-> 3]

\* the result of mlDetector.predict(transaction) for a blended score
AdvPredict(trained, draw) ==
  LET ensembleScore == IF trained THEN draw.trained ELSE draw.untrained
  IN [ensembleScore |-> ensembleScore, features |-> AdvFeatures,
      riskLevel |-> RiskLevel(ensembleScore)]

\* Math.round(ensembleScore * 100), the score in 1/100000
RoundScore(ensembleScore) == (ensembleScore + 500) \div 1000

\* riskScore > 70 ? 'blocked' : riskScore > 40 ? 'flagged' : 'approved'
AdvStatus(riskScore) ==
  IF riskScore > 70 THEN "blocked" ELSE IF riskScore > 40 THEN "flagged" ELSE "approved"

\* assessTransactionRisk(transaction) after its training step: the
\* transaction with riskScore, mlResult and status set
assessTransactionRisk(transaction, mlResult) ==
  LET riskScore == RoundScore(mlResult.ensembleScore)
  IN [id |-> transaction.id, riskScore |-> riskScore, mlResult |-> mlResult,
      status |-> AdvStatus(riskScore)]

\* mlDetector.train(transactions): trainingData grows by them and keeps its
\* last 1000 (kept here by its length), and the three models are fitted
AdvTrain(mlDetector, transactions) ==
  [trainingData |-> Min(mlDetector.trainingData + Len(transactions), 1000),
   trained |-> TRUE]

\* Math.round(((prev.avgConfidence * (newTotal - 1)) + currentConfidence) / newTotal)
AvgConfidence(prev, newTotal, currentConfidence) ==
  (2 * (prev * (newTotal - 1) + currentConfidence) + newTotal) \div (2 * newTotal)

\* an updater that counts a detection from a risk score of 50 on
AdvStats_detectionsFromFifty(prev, assessedTransaction) ==
  LET newTotal == prev.totalTransactions + 1
  IN [totalTransactions |-> newTotal,
      flaggedTransactions |-> prev.flaggedTransactions
                                + (IF assessedTransaction.status = "flagged" THEN 1 ELSE 0),
      blockedTransactions |-> prev.blockedTransactions
                                + (IF assessedTransaction.status = "blocked" THEN 1 ELSE 0),
      mlDetections |-> prev.mlDetections + (IF assessedTransaction.riskScore >= 50 THEN 1 ELSE 0),
      avgConfidence |-> AvgConfidence(prev.avgConfidence, newTotal,
                                      RoundScore(assessedTransaction.mlResult.ensembleScore))]

\* the updater passed to setStats
AdvStats(prev, assessedTransaction) ==
  LET newTotal == prev.totalTransactions + 1
  IN [totalTransactions |-> newTotal,
      flaggedTransactions |-> prev.flaggedTransactions
                                + (IF assessedTransaction.status = "flagged" THEN 1 ELSE 0),
      blockedTransactions |-> prev.blockedTransactions
                                + (IF assessedTransaction.status = "blocked" THEN 1 ELSE 0),
      mlDetections |-> prev.mlDetections + (IF assessedTransaction.riskScore > 40 THEN 1 ELSE 0),
      avgConfidence |-> AvgConfidence(prev.avgConfidence, newTotal,
                                      RoundScore(assessedTransaction.mlResult.ensembleScore))]

AdvInit ==
  /\ adv = [transactions |-> <<>>, alerts |-> <<>>, isMonitoring |-> FALSE,
            stats |-> [totalTransactions |-> 0, flaggedTransactions |-> 0,
                       blockedTransactions |-> 0, mlDetections |-> 0, avgConfidence |-> 0]]
  /\ advDetector = [trainingData |-> 0, trained |-> FALSE]
  /\ advTimers = [transactions |-> <<>>, phase |-> 0]
  /\ advDraws \in IF sys = "adv" THEN DrawSchedules ELSE {<<>>}
  /\ advLast = [by |-> "none"]

\* toggleMonitoring: clears the two intervals, or starts them; the callbacks
\* of the intervals are closures of this render, so the transactions they
\* read are the list of the render in which monitoring was started
AdvToggleMonitoring ==
  /\ sys = "adv"
  /\ IF adv.isMonitoring
     THEN /\ adv' = [adv EXCEPT !.isMonitoring = FALSE]
          /\ UNCHANGED advTimers
     ELSE /\ adv' = [adv EXCEPT !.isMonitoring = TRUE]
          /\ advTimers' = [transactions |-> adv.transactions, phase |-> 0]
  /\ advLast' = [by |-> "toggleMonitoring"]
  /\ UNCHANGED <<advDetector, advDraws>>
  /\ UNCHANGED <<ruleVars, storeVars, sys, apiVars, fdsVars, clsVars, fnVars, completed>>

\* the callback of the 3000 ms interval: one transaction is generated,
\* assessed (after a train() on the closed-over list when its length is a
\* multiple of 10), put in front of the list, alerted and counted
AdvTransactionInterval ==
  /\ sys = "adv"
  /\ adv.isMonitoring
  /\ advTimers.phase < 10
  /\ adv.stats.totalTransactions < MaxProcessed
  /\ LET transactions == advTimers.transactions
         trains == Len(transactions) >= 10 /\ Len(transactions) % 10 = 0
         mlDetector == IF trains THEN AdvTrain(advDetector, Slice(transactions, 20))
                     ELSE advDetector
         draw == advDraws[(adv.stats.totalTransactions % Len(advDraws)) + 1]
         newTransaction == [id |-> adv.stats.totalTransactions + 1]
         assessedTransaction ==
           assessTransactionRisk(newTransaction, AdvPredict(mlDetector.trained, draw))
         alert == generateMLAlert(assessedTransaction)
     IN /\ advDetector' = mlDetector
        /\ adv' = [adv EXCEPT
                     !.transactions = <<assessedTransaction>> \o Slice(@, 99),
                     !.alerts = IF alert # Null THEN <<alert>> \o Slice(@, 19) ELSE @,
                     !.stats = AdvStats(@, assessedTransaction)]
        /\ advLast' = [by |-> "transaction", transaction |-> assessedTransaction,
                       alert |-> alert]
  /\ advTimers' = [advTimers EXCEPT !.phase = @ + 1]
  /\ UNCHANGED advDraws
  /\ UNCHANGED <<ruleVars, storeVars, sys, apiVars, fdsVars, clsVars, fnVars, completed>>

\* the callback of the 30000 ms interval, due after ten callbacks of the
\* 3000 ms one: it retrains on the closed-over list when that holds more
\* than 10 transactions
AdvRetrainingInterval ==
  /\ sys = "adv"
  /\ adv.isMonitoring
  /\ advTimers.phase = 10
  /\ LET transactions == advTimers.transactions
     IN IF Len(transactions) > 10
        THEN /\ advDetector' = AdvTrain(advDetector, Slice(transactions, 50))
             /\ advLast' = [by |-> "retraining", trained |-> TRUE,
                            data |-> Slice(transactions, 50)]
        ELSE /\ UNCHANGED advDetector
             /\ advLast' = [by |-> "retraining", trained |-> FALSE, data |-> <<>>]
  /\ advTimers' = [advTimers EXCEPT !.phase = 0]
  /\ UNCHANGED <<adv, advDraws>>
  /\ UNCHANGED <<ruleVars, storeVars, sys, apiVars, fdsVars, clsVars, fnVars, completed>>

AdvNext ==
  \/ AdvToggleMonitoring
  \/ AdvTransactionInterval
  \/ AdvRetrainingInterval

(* ============================ specification ============================= *)
Systems == {"api", "fds", "cls", "det", "fn", "rule", "store", "adv"}

\* the start of a behaviour that follows one of the programs in S
InitOf(S) ==
  /\ sys \in S
  /\ ApiInit
  /\ FdsInit
  /\ ClsInit
  /\ FnInit
  /\ RuleInit
  /\ StoreInit
  /\ AdvInit
  /\ completed = FALSE

Init == InitOf(Systems)
InitApi == InitOf({"api"})
InitFds == InitOf({"fds"})
InitCls == InitOf({"cls"})
InitDet == InitOf({"det"})
InitApiCls == InitOf({"api", "cls"})
InitFn == InitOf({"fn"})
InitRule == InitOf({"rule"})
InitStore == InitOf({"store"})
InitAdv == InitOf({"adv"})

Next == ApiNext \/ FdsNext \/ ClsNext \/ DetNext \/ FnNext \/ RuleNext \/ StoreNext \/ AdvNext

\* any of the programs
Spec == Init /\ [][Next]_vars

\* one program each
SpecApi == InitApi /\ [][ApiNext]_vars
SpecFds == InitFds /\ [][FdsNext]_vars
SpecCls == InitCls /\ [][ClsNext]_vars
SpecDet == InitDet /\ [][DetNext]_vars

\* the server and the classes that swap a model in
SpecApiCls == InitApiCls /\ [][ApiNext \/ ClsNext]_vars
SpecFn == InitFn /\ [][FnNext]_vars

\* the component with its timers firing and its awaited promises settling
SpecFdsFair ==
  /\ SpecFds
  /\ WF_vars(TrainCallback)
  /\ WF_vars(StorageInitSettles)
  /\ WF_vars(SaveModelSettles)
  /\ WF_vars(ReEvaluateCallback)

SpecRule == InitRule /\ [][RuleNext]_vars
SpecStore == InitStore /\ [][StoreNext]_vars
SpecAdv == InitAdv /\ [][AdvNext]_vars

(* ================================ claims ================================ *)

\* C1: when a training run fails at any step, the active trained model after
\* the failure is the model that was active before the run started (or still
\* none).  API: a train request answered with an error leaves trainedModel
\* and modelMetadata as they were.  Component: when a run ends with the
\* alert "Training failed", trainedModel is the model the run started with.
C1_FailedRunKeepsModel ==
  [][/\ (PostModelTrain /\ apiResponse'.status # 200)
          => UNCHANGED <<trainedModel, modelMetadata>>
     /\ \A i \in 1..Len(tasks) :
          (/\ tasks[i].kind \in {"storageInit", "saveModel"}
           /\ uiAlert' = "Training failed"
           /\ tasks' = RemoveAt(tasks, i))
            => fds'.trainedModel = tasks[i].modelBefore]_vars

\* C2: every prediction is computed against a complete model, and the API
\* server replaces the trained model and its metadata together: both are
\* null or neither is, the tree list has all numTrees trees, the metadata is
\* that of the run that built the model, the prediction last answered is the
\* one the model in place gives, and a fitted IsolationForest holds all its
\* trees.
C2_AtomicSwap ==
  /\ (trainedModel = Null) <=> (modelMetadata = Null)
  /\ trainedModel # Null =>
       /\ Len(trainedModel.trees) = trainedModel.numTrees
       /\ modelMetadata.config.numTrees = Num(trainedModel.numTrees)
       /\ trainedModel.subSampleSize = Min(ApiDefaultSubSampleSize, modelMetadata.trainSize)
  /\ (apiResponse.route = "analyze" /\ apiResponse.status = 200) =>
       /\ trainedModel # Null
       /\ apiResponse.prediction = predictTransaction(apiResponse.transaction, trainedModel)
  /\ isolationForest.trained => Len(isolationForest.trees) = isolationForest.numTrees

\* two analyze requests for the same transaction, answered by two different
\* models: a train request came between them
C2_Witness ==
  /\ apiResponse.route = "analyze" /\ apiResponse.status = 200
  /\ Len(transactionHistory) = 2
  /\ transactionHistory[1].transaction = transactionHistory[2].transaction
  /\ transactionHistory[1].prediction # transactionHistory[2].prediction

\* C3: as long as no training run has completed, an analyze request is
\* answered with an error and a re-evaluate is refused, and neither changes
\* the model or the transaction history.
C3_RefusedBeforeTraining ==
  [][/\ (~completed /\ PostTransactionAnalyze)
          => /\ apiResponse'.status = 400
             /\ UNCHANGED <<trainedModel, modelMetadata, transactionHistory>>
     /\ (~completed /\ handleReEvaluate)
          => /\ uiAlert' = "Please train a model first"
             /\ UNCHANGED <<fds, tasks>>]_vars

\* C4: after an evaluation the four buckets of the confusion matrix sum to
\* the number of test records.
C4_BucketsSumToTestSize ==
  fnResult.fn \in {"evaluateModel", "fdsEvaluateModel"} =>
    LET cm == fnResult.metrics.confusionMatrix
    IN cm.truePositives + cm.falsePositives + cm.trueNegatives + cm.falseNegatives
         = Len(fnInput.testData)

\* an evaluation of a full-size test set with a hit, a false alarm and a miss
C4_Witness ==
  /\ fnResult.fn = "evaluateModel"
  /\ Len(fnInput.testData) = MaxTest
  /\ fnResult.metrics.confusionMatrix.truePositives > 0
  /\ fnResult.metrics.confusionMatrix.falsePositives > 0
  /\ fnResult.metrics.confusionMatrix.falseNegatives > 0

\* the reported value v (a count of 1/10000) is exactly a / b
ExactRatio(v, a, b) == IsNum(v) /\ v.num * b = 10000 * a

\* the reported value v is a / b rounded to four decimals
RoundedRatio(v, a, b) ==
  /\ IsNum(v)
  /\ 2 * (v.num * b - 10000 * a) <= b
  /\ 2 * (10000 * a - v.num * b) <= b

\* C5 as stated: an evaluation reports 0 for a metric whose denominator is
\* 0, and otherwise exactly precision = TP/(TP+FP), recall = TP/(TP+FN),
\* accuracy = (TP+TN)/N.
C5_ExactMetrics ==
  fnResult.fn \in {"evaluateModel", "fdsEvaluateModel"} =>
    LET m == fnResult.metrics
        cm == m.confusionMatrix
        tp == cm.truePositives
        fp == cm.falsePositives
        tn == cm.trueNegatives
        fn == cm.falseNegatives
        n == Len(fnInput.testData)
    IN /\ IF tp + fp = 0 THEN m.precision = Num(0) ELSE ExactRatio(m.precision, tp, tp + fp)
       /\ IF tp + fn = 0 THEN m.recall = Num(0) ELSE ExactRatio(m.recall, tp, tp + fn)
       /\ IF n = 0 THEN m.accuracy = Num(0) ELSE ExactRatio(m.accuracy, tp + tn, n)
       /\ (m.precision = Num(0) /\ m.recall = Num(0)) => m.f1Score = Num(0)

\* C5, amended: an evaluation reports 0.0000 for a metric whose denominator
\* is 0, and otherwise TP/(TP+FP), TP/(TP+FN) and (TP+TN)/N each rounded to
\* four decimals; F1 is 0.0000 when precision + recall is 0 and a number
\* otherwise.
C5_RoundedMetrics ==
  fnResult.fn \in {"evaluateModel", "fdsEvaluateModel"} =>
    LET m == fnResult.metrics
        cm == m.confusionMatrix
        tp == cm.truePositives
        fp == cm.falsePositives
        tn == cm.trueNegatives
        fn == cm.falseNegatives
        n == Len(fnInput.testData)
    IN /\ IF tp + fp = 0 THEN m.precision = Num(0) ELSE RoundedRatio(m.precision, tp, tp + fp)
       /\ IF tp + fn = 0 THEN m.recall = Num(0) ELSE RoundedRatio(m.recall, tp, tp + fn)
       /\ IF n = 0 THEN m.accuracy = Num(0) ELSE RoundedRatio(m.accuracy, tp + tn, n)
       /\ IF tp = 0 THEN m.f1Score = Num(0) ELSE RoundedRatio(m.f1Score, 2 * tp, 2 * tp + fp + fn)

\* an evaluation whose precision, 1/3, has no four-decimal value, and whose
\* recall has the denominator 0 or not
C5_Witness ==
  /\ fnResult.fn \in {"evaluateModel", "fdsEvaluateModel"}
  /\ fnResult.metrics.confusionMatrix.truePositives = 1
  /\ fnResult.metrics.confusionMatrix.falsePositives = 2
  /\ fnResult.metrics.precision = Num(3333)

\* C6: predict with an isolation forest trained on a non-empty dataset
\* returns an anomaly score within [0,1], never NaN, and an integer
\* riskScore within 0..100, for any record.
C6_ScoreInRange ==
  fnResult.fn \in {"predictTransaction", "predictIsolationForest"} =>
    /\ IsNum(fnResult.prediction.anomalyScore)
    /\ fnResult.prediction.anomalyScore.num \in 0..10000
    /\ IsNum(fnResult.prediction.riskScore)
    /\ fnResult.prediction.riskScore.num \in 0..100

\* C7: two predict calls on the same unchanged model and the same input
\* return the same score, whatever the state of the model.
C7_PredictIdempotent ==
  (lastCall.by \in {"isolationForest.predict", "lof.predict"} /\ lastCall.repeats)
    => lastCall.score = lastCall.previous

\* the children of every internal node hold, between them, each record that
\* reached the node exactly once
RECURSIVE Partitioned(_)
Partitioned(t) ==
  t.type = "internal" =>
    /\ SeqToSet(t.left.reached) \cap SeqToSet(t.right.reached) = {}
    /\ SeqToSet(t.left.reached) \cup SeqToSet(t.right.reached) = SeqToSet(t.reached)
    /\ Len(t.left.reached) + Len(t.right.reached) = Len(t.reached)
    /\ Partitioned(t.left)
    /\ Partitioned(t.right)

\* C8: in every tree built by training, the records sent left and the
\* records sent right of an internal node are disjoint and together are the
\* records that reached the node, also when records lack the split feature
\* or hold no number for it.
C8_ChildrenPartition ==
  fnResult.fn \in {"buildTree", "buildIsolationTree", "buildDecisionTree"} =>
    Partitioned(fnResult.tree)

\* C9: a train operation given an empty dataset fails with an error,
\* produces no model and leaves the model in place unchanged, in the API
\* train route and in IsolationForest.fit.
C9_EmptyDatasetRejected ==
  [][/\ (PostModelTrain /\ apiResponse'.status = 400)
          => UNCHANGED <<trainedModel, modelMetadata>>
     /\ (IsolationForestFitCall /\ Len(lastCall'.data) = 0)
          => (lastCall'.threw /\ UNCHANGED isolationForest)]_vars

\* C10: training the decision forest on data with no fraud record and at
\* least one legitimate record gives trees whose root is a leaf of fraud
\* probability 0; no probability is NaN.
C10_NoFraudGivesZeroLeaves ==
  (/\ fnResult.fn = "trainRandomForest"
   /\ \A i \in 1..Len(fnInput.data) : Get(fnInput.data[i], "Class") \notin {Num(1), Str("1")}
   /\ \E i \in 1..Len(fnInput.data) : Get(fnInput.data[i], "Class") \in {Num(0), Str("0")})
    => \A k \in 1..Len(fnResult.model.trees) :
         /\ fnResult.model.trees[k].type = "leaf"
         /\ IsRat(fnResult.model.trees[k].probability)
         /\ fnResult.model.trees[k].probability.rn = 0

\* a forest of MaxTrees trees trained on a sample without fraud whose only
\* legitimate label is the string '0', beside an unlabelled record
C10_Witness ==
  /\ fnResult.fn = "trainRandomForest"
  /\ Len(fnResult.model.trees) = MaxTrees
  /\ Len(fnInput.data) = 2
  /\ \E i \in 1..2 : Get(fnInput.data[i], "Class") = Str("0")
  /\ \E i \in 1..2 : Get(fnInput.data[i], "Class") = Undefined
  /\ \A k \in 1..MaxTrees : fnResult.model.trees[k].samples = 1

\* the standard Gini impurity of one side, 1 - pFraud^2 - pLegit^2 with the
\* plain class fractions, in 1/10000; an empty side has impurity 0
StandardGini(side) ==
  LET n == Len(side)
      f == Cardinality({i \in 1..n : side[i].Class = Num(1)})
      l == n - f
  IN IF n = 0 THEN 0 ELSE ((n * n - f * f - l * l) * 10000) \div (n * n)

\* C11: with classWeight = 1, calculateWeightedGini of a left/right pair is
\* the standard unweighted Gini impurity of the split: each side's impurity
\* weighted by its share of the records, summed.
C11_WeightOneIsStandardGini ==
  (fnResult.fn = "calculateWeightedGini" /\ fnInput.classWeight = 1)
    => LET total == Len(fnInput.left) + Len(fnInput.right)
       IN IF total = 0 THEN fnResult.gini = NaN
          ELSE fnResult.gini =
                 Num((StandardGini(fnInput.left) * Len(fnInput.left)) \div total
                     + (StandardGini(fnInput.right) * Len(fnInput.right)) \div total)

\* classWeight 1, both sides mixed and impure, of different sizes
C11_Witness ==
  /\ fnResult.fn = "calculateWeightedGini"
  /\ fnInput.classWeight = 1
  /\ Len(fnInput.left) = 3 /\ Len(fnInput.right) = 2
  /\ IsNum(fnResult.gini) /\ fnResult.gini.num > 0
  /\ \E i \in 1..3 : fnInput.left[i].Class = Num(1)
  /\ \E i \in 1..3 : fnInput.left[i].Class = Num(0)

\* the record has no number for the feature: the field is absent, an empty
\* cell, or a text
LacksFeature(trans, feature) ==
  feature \notin DOMAIN trans \/ ~IsNum(trans[feature])

\* the walk of the record down the tree meets an internal node whose
\* feature the record lacks
RECURSIVE MeetsLackingNode(_, _)
MeetsLackingNode(trans, tree) ==
  /\ tree.type = "internal"
  /\ \/ LacksFeature(trans, tree.feature)
     \/ MeetsLackingNode(trans, IF trans[tree.feature].num < tree.splitValue.num
                                THEN tree.left ELSE tree.right)

CountFraud(data) == Cardinality({i \in 1..Len(data) : Get(data[i], "Class") \in {Num(1), Str("1")}})
CountLegit(data) == Cardinality({i \in 1..Len(data) : Get(data[i], "Class") \in {Num(0), Str("0")}})

\* C13: the bootstrap sample of a tree has sampleSize = min(5000, |data|)
\* records, of which min(3 x fraudCount, floor(0.3 x sampleSize)) are fraud
\* records and the remaining ones legitimate records (for training data in
\* which every record is labelled).
C13_BootstrapComposition ==
  (/\ fnResult.fn = "bootstrapSample"
   /\ CountFraud(fnInput.data) + CountLegit(fnInput.data) = Len(fnInput.data))
    => LET sampleSize == IF Len(fnInput.data) < 5000 THEN Len(fnInput.data) ELSE 5000
           byShare == (3 * sampleSize) \div 10
           fraudSize == IF 3 * CountFraud(fnInput.data) < byShare
                        THEN 3 * CountFraud(fnInput.data) ELSE byShare
       IN /\ Len(fnResult.sample) = sampleSize
          /\ CountFraud(fnResult.sample) = fraudSize
          /\ CountLegit(fnResult.sample) = sampleSize - fraudSize

\* none of the feature thresholds of an explanation is exceeded
NoThresholdExceeded(features) ==
  /\ features.amountZScore <= 200
  /\ features.timeRisk <= 50
  /\ features.merchantRisk <= 60
  /\ features.locationRisk <= 60
  /\ features.velocity <= 3

\* C14: a flagged or blocked transaction gets an alert, every alert carries
\* a non-empty list of explanations, and when no feature threshold is
\* exceeded the list is the single entry 'Multiple weak signals combined'.
C14_AlertsAreExplained ==
  fnResult.fn = "generateMLAlert"
    => /\ fnInput.transaction.status \in {"flagged", "blocked"} <=> fnResult.alert # Null
       /\ fnResult.alert # Null =>
            /\ Len(fnResult.alert.explanation) > 0
            /\ NoThresholdExceeded(fnInput.transaction.mlResult.features)
                 => fnResult.alert.explanation = <<"Multiple weak signals combined">>

\* a blocked transaction none of whose features exceeds its threshold
C14_Witness ==
  /\ fnResult.fn = "generateMLAlert"
  /\ fnInput.transaction.status = "blocked"
  /\ fnResult.alert # Null
  /\ NoThresholdExceeded(fnInput.transaction.mlResult.features)
  /\ fnResult.alert.explanation = <<"Multiple weak signals combined">>

\* C16: LocalOutlierFactor.predict with fewer than k fitted points returns a
\* placeholder score without computing a density and without an error;
\* whatever the fitted data, its score is a number within [0,1].
C16_LofScoreInRange ==
  lastCall.by = "lof.predict"
    => /\ IsNum(lastCall.score)
       /\ lastCall.score.num >= 0 /\ lastCall.score.num <= 10000
       /\ Len(lof.data) < lof.k
            => /\ ~lastCall.computed
               /\ lastCall.score.num >= 3000 /\ lastCall.score.num <= 7000

\* an outlier factor with enough points, asked about a point that is denser
\* than its neighbours or as dense: the score is the clamped end 0
C16_Witness ==
  /\ lastCall.by = "lof.predict"
  /\ lastCall.computed
  /\ Len(lof.data) = 3 /\ lof.k = 2
  /\ lastCall.score = Num(0)

\* C15: the ensemble score MLFraudDetector.predict returns lies within
\* [0,1], and the risk tier it returns is 'high' exactly when that score is
\* above 0.7, 'medium' when it is above 0.4 and at most 0.7, 'low' otherwise.
C15_EnsembleScoreAndTier ==
  lastCall.by = "detector.predict"
    => LET score == lastCall.result.ensembleScore
           tier == lastCall.result.riskLevel
       IN /\ score >= 0 /\ score <= 100000
          /\ tier = "high" <=> score > 70000
          /\ tier = "medium" <=> (score > 40000 /\ score <= 70000)
          /\ tier = "low" <=> score <= 40000

\* a trained detector returning the medium tier with a score below 0.5
C15_Witness ==
  /\ lastCall.by = "detector.predict"
  /\ isolationForest.trained
  /\ lastCall.result.riskLevel = "medium"
  /\ lastCall.result.ensembleScore < 50000

\* C17: every profile's riskHistory holds at most 10 entries, which are the risk
\* scores of the user's most recent transactions in arrival order, and a user
\* has a profile exactly from the first transaction on
C17_RiskHistoryIsRecentWindow ==
  sys = "rule" =>
    \A u \in UserIds :
      LET n == Len(arrivals[u])
          kept == IF n > RiskHistoryCap THEN RiskHistoryCap ELSE n
      IN /\ (u \in DOMAIN mlModel.userProfiles) = (n > 0)
         /\ n > 0 =>
              LET riskHistory == mlModel.userProfiles[u].riskHistory
              IN /\ Len(riskHistory) = kept
                 /\ \A i \in 1..kept : riskHistory[i] = arrivals[u][n - kept + i].riskScore

\* a user's eleventh transaction has evicted a score that differs from the one kept first
C17_Witness ==
  /\ sys = "rule"
  /\ \E u \in UserIds :
       /\ Len(arrivals[u]) > RiskHistoryCap
       /\ arrivals[u][1].riskScore # arrivals[u][2].riskScore
       /\ u \in DOMAIN mlModel.userProfiles
       /\ Len(mlModel.userProfiles[u].riskHistory) = RiskHistoryCap

\* the transactions the original and the loaded model are compared on
RoundTripTransactions == {[Amount |-> Num(10), Time |-> Num(5)], [Amount |-> Num(30)]}

\* C18: loadModel on an id saveModel returned resolves to a record whose model
\* equals the model that was saved, and the two predict alike
C18_LoadedModelEqualsSaved ==
  (sys = "store" /\ storeCall.by = "loadModel" /\ storeCall.resolved) =>
    LET original == saved[storeCall.modelId]
        loaded == storeCall.result.model
        ui == [threshold |-> 5000, useFeatureWeighting |-> TRUE]
    IN /\ loaded = original
       /\ \A t \in RoundTripTransactions : predictFn(t, loaded, ui) = predictFn(t, original, ui)

\* the same for models trained on at least one record
NonEmptyModelsRoundTrip ==
  (sys = "store" /\ storeCall.by = "loadModel" /\ storeCall.resolved) =>
    LET original == saved[storeCall.modelId]
        loaded == storeCall.result.model
        ui == [threshold |-> 5000, useFeatureWeighting |-> TRUE]
    IN (\A i \in DOMAIN original.trees :
          original.trees[i].type = "leaf" /\ "samples" \in DOMAIN original.trees[i]
            => original.trees[i].samples > 0)
       => /\ loaded = original
          /\ \A t \in RoundTripTransactions : predictFn(t, loaded, ui) = predictFn(t, original, ui)

\* the test fraction a training call is configured with, in percent: 20 when
\* the request carries none, and always 20 in the component
ConfiguredTestPercent ==
  IF fnInput.testSplit = Undefined THEN 20 ELSE fnInput.testSplit.num

\* train set and test set are disjoint and together hold every record once
SplitPartitionsDataset ==
  (sys = "fn" /\ fnResult.fn = "splitDataset") =>
    /\ SeqToSet(fnResult.trainData) \cap SeqToSet(fnResult.testData) = {}
    /\ SeqToSet(fnResult.trainData) \cup SeqToSet(fnResult.testData) = SeqToSet(fnInput.data)
    /\ Len(fnResult.trainData) + Len(fnResult.testData) = Len(fnInput.data)

\* C19: in every training call train set and test set partition the dataset,
\* and the test set has floor(n * f) records, f the configured fraction
C19_SplitPartitionAndSize ==
  (sys = "fn" /\ fnResult.fn = "splitDataset") =>
    /\ SeqToSet(fnResult.trainData) \cap SeqToSet(fnResult.testData) = {}
    /\ SeqToSet(fnResult.trainData) \cup SeqToSet(fnResult.testData) = SeqToSet(fnInput.data)
    /\ Len(fnResult.trainData) + Len(fnResult.testData) = Len(fnInput.data)
    /\ Len(fnResult.testData) = (Len(fnInput.data) * ConfiguredTestPercent) \div 100

\* the size holds whenever the request configures no fraction or one above 0
SplitSizeUnlessZeroConfigured ==
  (sys = "fn" /\ fnResult.fn = "splitDataset" /\ fnInput.testSplit # Num(0)) =>
    Len(fnResult.testData) = (Len(fnInput.data) * ConfiguredTestPercent) \div 100

\* every percent reported lies in 0..100
ProgressStaysInRange ==
  sys = "fds" =>
    /\ fds.trainingProgress \in 0..100
    /\ \A i \in 1..Len(reports) : reports[i] \in 0..100

\* the percents reported since a training run began never decrease
ProgressNeverDecreases ==
  sys = "fds" => \A i \in 1..(Len(reports) - 1) : reports[i] <= reports[i + 1]

\* the same, but for the 0 a dataset upload reports
ProgressDecreasesOnlyByUpload ==
  sys = "fds" =>
    \A i \in 1..(Len(reports) - 1) : reports[i] <= reports[i + 1] \/ reports[i + 1] = 0

\* the percent is 100 only with the metrics of a finished evaluation in place
HundredOnlyAfterEvaluation ==
  (sys = "fds" /\ fds.trainingProgress = 100) => fds.modelMetrics # Null

\* the training flag, once set, is cleared
TrainingEventuallyCleared == (sys = "fds" /\ fds.training) ~> ~fds.training

\* C20: during a training run the reported percent never decreases and stays
\* in 0..100, it is 100 only after the evaluation has finished, and the
\* training flag is eventually cleared, on success and on failure
C20_ProgressOfATrainingRun ==
  /\ [](ProgressStaysInRange /\ ProgressNeverDecreases /\ HundredOnlyAfterEvaluation)
  /\ TrainingEventuallyCleared

\* the nodes of a decision tree, each with its depth below the root
RECURSIVE NodesAtDepth(_, _)
NodesAtDepth(tree, depth) ==
  {[node |-> tree, depth |-> depth]}
  \cup (IF tree.type = "internal"
        THEN NodesAtDepth(tree.left, depth + 1) \cup NodesAtDepth(tree.right, depth + 1)
        ELSE {})

\* the records of a node that carry the fraud label
FraudRecords(data) == Len(SelectSeq(data, IsFraudLabel))

\* a node whose records are all fraud or all not fraud
SingleClass(data) == FraudRecords(data) = 0 \/ FraudRecords(data) = Len(data)

\* C21: in a tree that buildDecisionTree returns no node is deeper than the
\* configured maxDepth, both children of an internal node received at least
\* minSamplesLeaf records, a node with fewer than 2 * minSamplesLeaf records
\* or with one class only is a leaf, and every leaf's probability is its
\* fraud records divided by its records
C21_TreeShape ==
  fnResult.fn = "buildDecisionTree"
    => \A nd \in NodesAtDepth(fnResult.tree, 0) :
         /\ nd.depth <= fnResult.maxDepth
         /\ nd.node.type = "internal"
              => /\ Len(nd.node.left.reached) >= minSamplesLeaf
                 /\ Len(nd.node.right.reached) >= minSamplesLeaf
         /\ (Len(nd.node.reached) < 2 * minSamplesLeaf \/ SingleClass(nd.node.reached))
              => nd.node.type = "leaf"
         /\ nd.node.type = "leaf"
              => /\ nd.node.probability = JsDiv(FraudRecords(nd.node.reached), Len(nd.node.reached))
                 /\ nd.node.samples = Len(nd.node.reached)

\* the deep sample built with the small maxDepth: the root splits, and one
\* child is a leaf of both classes with enough records to split again
C21_Witness ==
  /\ fnResult.fn = "buildDecisionTree"
  /\ fnResult.maxDepth < DefaultMaxDepth
  /\ fnResult.tree.type = "internal"
  /\ \E side \in {fnResult.tree.left, fnResult.tree.right} :
       /\ side.type = "leaf"
       /\ Len(side.reached) >= 2 * minSamplesLeaf
       /\ ~SingleClass(side.reached)
       /\ side.probability.rn > 0

\* the deep sample built with the default maxDepth: a tree of depth two
C21_WitnessDeep ==
  /\ fnResult.fn = "buildDecisionTree"
  /\ fnResult.maxDepth = DefaultMaxDepth
  /\ \E nd \in NodesAtDepth(fnResult.tree, 0) : nd.depth = 2

\* C22: a step of the analyze route keeps the trained model and its
\* metadata; it answers 200 only for a transaction that has Amount and Time,
\* and then the history grows by exactly that transaction with its
\* prediction at its end; any other answer is a 400 and keeps the history
C22_AnalyzeFrame ==
  [][apiResponse'.route = "analyze"
       => /\ trainedModel' = trainedModel
          /\ modelMetadata' = modelMetadata
          /\ apiResponse'.status \in {200, 400}
          /\ apiResponse'.status = 200
               => /\ MissingFields(apiResponse'.transaction) = {}
                  /\ transactionHistory' =
                       Append(transactionHistory,
                              [transaction |-> apiResponse'.transaction,
                               prediction |-> apiResponse'.prediction])
          /\ apiResponse'.status = 400 => transactionHistory' = transactionHistory]_vars

\* a request without Time rejected by a server that has a model and has
\* stored one analysed transaction before
C22_Witness ==
  /\ apiResponse.route = "analyze"
  /\ apiResponse.status = 400
  /\ apiResponse.error = "Missing required fields"
  /\ trainedModel # Null
  /\ Len(transactionHistory) = 1

\* the active id, when one is set, names a model of the store
ActiveModelPresent ==
  modelStore.activeModelId = Null
  \/ \E id \in DOMAIN modelStore.models : modelStore.activeModelId = Str(id)

\* a step of the named method: it leaves its outcome in storeCall, and
\* neither the clock nor a clearAll moves in it
StepOf(method) ==
  storeCall'.by = method /\ now' = now /\ clearing' = clearing

C23_WitnessActiveDeleted ==
  /\ storeCall.by = "deleteModel"
  /\ storeCall.modelId \in DOMAIN saved
  /\ modelStore.activeModelId = Null
  /\ DOMAIN modelStore.models # {}
  /\ clearing = 0

\* between the two steps of clearAll the active id names a model that is gone
ActiveDanglesWhileClearing ==
  clearing > 0 /\ ~ActiveModelPresent

\* importModel puts the record of the file under the id it resolves with
ImportStoresUnderNewId ==
  [][(StepOf("importModel") /\ storeCall'.resolved)
       => /\ storeCall'.result \in DOMAIN modelStore'.models
          /\ IsJsObject(modelStore'.models[storeCall'.result].model)]_vars

\* C24: after importModel has resolved with the new id of a model that
\* exportModel wrote out, loadModel on that id resolves, with a model equal
\* to the one originally saved
C24_ImportedModelLoads ==
  [][(/\ storeCall.by = "importModel"
      /\ storeCall.resolved
      /\ StepOf("loadModel")
      /\ storeCall'.modelId = storeCall.result)
       => /\ storeCall'.resolved
          /\ storeCall'.result.model = saved[storeCall'.modelId]]_vars

\* loadModel has been called on an imported model that this session exported
C24_LoadOfImported ==
  /\ storeCall.by = "loadModel"
  /\ download # Null
  /\ storeCall.modelId \in DOMAIN modelStore.models
  /\ IsJsObject(modelStore.models[storeCall.modelId].model)
  /\ ~storeCall.resolved

\* a step of the 30000 ms callback
RetrainingFires ==
  adv.isMonitoring /\ advTimers.phase = 10 /\ advTimers'.phase = 0 /\ advLast'.by = "retraining"

\* C25: at every firing of the retraining callback at which more than 10
\* transactions have been collected, the detector is retrained on the most
\* recent (up to 50) of them; while monitoring is off no transaction is
\* generated and the detector is not trained
C25_RetrainsOnRecentTransactions ==
  [][/\ (RetrainingFires /\ Len(adv.transactions) > 10)
          => /\ advLast'.trained
             /\ advLast'.data = Slice(adv.transactions, 50)
             /\ advDetector'.trained
     /\ (~adv.isMonitoring /\ ~adv'.isMonitoring)
          => /\ adv'.transactions = adv.transactions
             /\ advDetector' = advDetector]_vars

\* what the code does keep: nothing happens while monitoring is off, and a
\* firing retrains on the list the callback closed over when monitoring
\* was started, if that held more than 10 transactions
RetrainsOnClosedOverTransactions ==
  [][/\ RetrainingFires
          => IF Len(advTimers.transactions) > 10
             THEN advLast'.trained /\ advLast'.data = Slice(advTimers.transactions, 50)
             ELSE ~advLast'.trained /\ advDetector' = advDetector
     /\ (~adv.isMonitoring /\ ~adv'.isMonitoring)
          => /\ adv'.transactions = adv.transactions
             /\ advDetector' = advDetector]_vars

\* the second firing of a monitoring started on an empty list: 20
\* transactions collected, and no retraining
C25_FiringWithoutRetraining ==
  /\ advLast.by = "retraining"
  /\ ~advLast.trained
  /\ Len(adv.transactions) = 20
  /\ ~advDetector.trained

\* a firing that retrains on a list older than the collected one
C25_RetrainingOnStaleList ==
  /\ advLast.by = "retraining"
  /\ advLast.trained
  /\ advLast.data # Slice(adv.transactions, 50)

\* C26: the status of every assessed transaction is 'blocked' exactly when
\* the risk tier of its ML result is 'high', 'flagged' exactly when it is
\* 'medium', and 'approved' exactly when it is 'low'
C26_StatusMatchesTier ==
  \A i \in 1..Len(adv.transactions) :
    LET transaction == adv.transactions[i]
    IN /\ transaction.status = "blocked" <=> transaction.mlResult.riskLevel = "high"
       /\ transaction.status = "flagged" <=> transaction.mlResult.riskLevel = "medium"
       /\ transaction.status = "approved" <=> transaction.mlResult.riskLevel = "low"

\* status and tier agree whenever the score is not within half a percent
\* above a threshold
StatusMatchesTierAwayFromThresholds ==
  \A i \in 1..Len(adv.transactions) :
    LET transaction == adv.transactions[i]
        score == transaction.mlResult.ensembleScore
    IN ~(score \in 40001..40499 \/ score \in 70001..70499)
         => /\ transaction.status = "blocked" <=> transaction.mlResult.riskLevel = "high"
            /\ transaction.status = "flagged" <=> transaction.mlResult.riskLevel = "medium"
            /\ transaction.status = "approved" <=> transaction.mlResult.riskLevel = "low"

\* transactions of all three statuses have been assessed
AllStatusesAssessed ==
  \A st \in {"blocked", "flagged", "approved"} :
    \E i \in 1..Len(adv.transactions) : adv.transactions[i].status = st

\* a step of the 3000 ms callback
TransactionProcessed ==
  adv'.stats.totalTransactions = adv.stats.totalTransactions + 1

\* C30: mlDetections = flaggedTransactions + blockedTransactions <=
\* totalTransactions; a processed transaction puts an alert of its own in
\* front of the list exactly when its status is 'flagged' or 'blocked', and
\* leaves the list alone otherwise; the list holds at most 20 alerts
C30_StatsAndAlerts ==
  /\ [](/\ adv.stats.mlDetections = adv.stats.flaggedTransactions + adv.stats.blockedTransactions
        /\ adv.stats.flaggedTransactions + adv.stats.blockedTransactions
             <= adv.stats.totalTransactions
        /\ Len(adv.alerts) <= 20)
  /\ [][TransactionProcessed
          => LET transaction == adv'.transactions[1]
             IN IF transaction.status \in {"flagged", "blocked"}
                THEN /\ adv'.alerts # <<>>
                     /\ adv'.alerts[1].transactionId = transaction.id
                     /\ Tail(adv'.alerts) = Slice(adv.alerts, 19)
                ELSE adv'.alerts = adv.alerts]_vars

\* the list is full and an older alert has been dropped, after flagged and
\* blocked transactions
C30_Witness ==
  /\ Len(adv.alerts) = 20
  /\ adv.stats.mlDetections > 20
  /\ adv.stats.flaggedTransactions > 0
  /\ adv.stats.blockedTransactions > 0

\* approved transactions among flagged and blocked ones
C30_WitnessApproved ==
  /\ adv.stats.mlDetections < adv.stats.totalTransactions
  /\ adv.stats.flaggedTransactions > 0
  /\ adv.stats.blockedTransactions > 0
  /\ advLast.by = "transaction"
  /\ advLast.alert = Null

\* the training runs in progress: their timer is pending or their callback
\* awaits the storage
TrainingRuns ==
  {i \in 1..Len(tasks) : tasks[i].kind \in {"trainTimer", "storageInit", "saveModel"}}

\* C27: an active trained model was trained on the dataset that is loaded
\* (a run started on an earlier dataset never installs its model after a
\* newer one was loaded), and at most one training run is in progress
C27_ModelOfLoadedDataset ==
  /\ fds.trainedModel # Null => fds.trainedOn = fds.realDataset
  /\ Cardinality(TrainingRuns) <= 1

\* what handleDataLoaded does keep: at the moment a dataset is loaded the
\* active model and the metrics are cleared
LoadingClearsModel ==
  [][fds'.realDataset # fds.realDataset
       => fds'.trainedModel = Null /\ fds'.modelMetrics = Null]_vars

\* a run started on the two-record dataset has installed its model after
\* the one-record dataset was loaded, and its run is over
C27_StaleModelInstalled ==
  /\ fds.trainedModel # Null
  /\ fds.trainedOn # fds.realDataset
  /\ Len(fds.trainedOn.rows) = 2 /\ Len(fds.realDataset.rows) = 1
  /\ ~fds.training
  /\ tasks = <<>>

\* C28: the scaling of a record before it is scored equals the scaling of
\* the training records before the trees were built, for every feature and
\* for either setting of feature weighting
C28_ScoringScalesAsTraining ==
  fnResult.fn = "featureScaling"
    => \A feature \in DOMAIN fnInput.transaction :
         fnResult.atScoring[feature] = fnResult.atTraining[feature]

\* with feature weighting off neither path scales anything
UnweightedPathsAgree ==
  (fnResult.fn = "featureScaling" /\ ~fnResult.useFeatureWeighting)
    => /\ fnResult.atScoring = fnInput.transaction
       /\ fnResult.atTraining = fnInput.transaction

\* a record with Amount and Time scaled with feature weighting on: Amount
\* by 1.2 and Time by 0.8 for training, Amount by 1.5 and Time not at all
\* for scoring
C28_ScalingsDiffer ==
  /\ fnResult.fn = "featureScaling"
  /\ fnResult.useFeatureWeighting
  /\ fnInput.transaction = [Amount |-> Num(30), Time |-> Num(10), Class |-> Num(1)]
  /\ fnResult.atTraining.Amount = Num(36) /\ fnResult.atTraining.Time = Num(8)
  /\ fnResult.atScoring.Amount = Num(45) /\ fnResult.atScoring.Time = Num(10)

\* the sum of the counts of a Map, or of the slots of an array
RECURSIVE TotalOver(_, _)
TotalOver(counts, keys) ==
  IF keys = {} THEN 0
  ELSE LET k == CHOOSE x \in keys : TRUE IN counts[k] + TotalOver(counts, keys \ {k})

MapTotal(counts) == TotalOver(counts, DOMAIN counts)

\* C29: a user's totalTransactions is the number of that user's processed
\* transactions, and equals the sum of the hourly histogram, of the merchant
\* counts and of the location counts; processing a transaction of one user
\* leaves the profile of every other user as it was
C29_ProfileCountersAgree ==
  /\ [](sys = "rule" =>
          \A u \in UserIds :
            LET n == Len(arrivals[u])
            IN /\ (u \in DOMAIN mlModel.userProfiles) = (n > 0)
               /\ n > 0 =>
                    LET profile == mlModel.userProfiles[u]
                    IN /\ profile.totalTransactions = n
                       /\ DOMAIN profile.timePatterns = 0..23
                       /\ MapTotal(profile.timePatterns) = n
                       /\ MapTotal(profile.preferredMerchants) = n
                       /\ MapTotal(profile.locationPatterns) = n)
  /\ [][\A u \in UserIds :
          arrivals'[u] = arrivals[u]
            => /\ (u \in DOMAIN mlModel'.userProfiles) = (u \in DOMAIN mlModel.userProfiles)
               /\ u \in DOMAIN mlModel.userProfiles
                    => mlModel'.userProfiles[u] = mlModel.userProfiles[u]]_vars

\* both users have a profile, one of them with two merchants seen more than
\* once each, two locations and four transactions in the same hour
C29_Witness ==
  /\ sys = "rule"
  /\ DOMAIN mlModel.userProfiles = UserIds
  /\ \E u \in UserIds :
       /\ mlModel.userProfiles[u].totalTransactions >= 4
       /\ \A m \in {"Amazon", "Crypto Exchange"} :
            CountOf(mlModel.userProfiles[u].preferredMerchants, m) >= 2
       /\ Cardinality(DOMAIN mlModel.userProfiles[u].locationPatterns) = 2
       /\ mlModel.userProfiles[u].timePatterns[3] >= 4

====
